---- MODULE Spec2Model ----
(***************************************************************************)
(* Voxlor generation pipeline: the orchestrator (generateApp), the         *)
(* research agent with its search fallback chain, and the planner agent.   *)
(*                                                                         *)
(* Conventions                                                             *)
(*  - a word is a tuple of one-character strings; a prompt, a keyword list *)
(*    and a snippet are tuples of words (the text after split(' '));       *)
(*  - a relevance is kept in tenths (0.1 * matches becomes matches), so    *)
(*    the interval [0, 1] is 0..10;                                        *)
(*  - a nullable value is <<>> (null / undefined) or <<v>>;                *)
(*  - a reply of a text-generation call is a record [kind, value]:         *)
(*    "fail" the call rejects, "text" the reply holds no JSON-shaped       *)
(*    payload, "badjson" a payload is located but JSON.parse throws,       *)
(*    "json" the payload parses to value.                                  *)
(***************************************************************************)
EXTENDS Integers, Sequences, FiniteSets, TLC

VARIABLES
    \* ---- VoxlorOrchestrator.generateApp (one run) ----
    pc,          \* position of the run in generateApp
    request,     \* the AppGenerationRequest of the run
    calls,       \* the stage calls made by the run, in order
    result,      \* the AppGenerationResult being built
    plan,        \* local `plan` of generateApp
    deployment,  \* local `deployment` of generateApp
    genLog,      \* outcome of every text-generation call of the run
    vercelToken, \* DeployAgent.vercelToken
    \* ---- ResearchAgent.researchApp (one call) ----
    rpc,         \* position of the call
    rprompt,     \* the prompt argument
    keywords,    \* local `keywords`
    engine,      \* index of the alternative engine being tried
    tried,       \* the search strategies invoked, with their yields
    results,     \* local `results` of searchWeb
    returned,    \* value returned by searchWeb
    summary,     \* value returned by researchApp
    rthrew,      \* the function whose exception left researchApp, or "none"
    cacheFile,   \* research-cache.json
    \* ---- PlannerAgent.planApp / refinePlan ----
    ppc,         \* position of the planner call
    pop,         \* which operation is running: "plan" or "refine"
    preq,        \* request argument of planApp
    pin,         \* plan argument of refinePlan
    panalysis,   \* local `analysisResponse`
    preply,      \* local `planResponse` / `refinedResponse`
    pfailed,     \* a text-generation step of this call rejected
    pafter,      \* external calls made after that rejection
    pout,        \* value returned by the call
    seen,        \* plans returned so far by failed planApp calls, per prompt
    \* ---- CodeAgent.generateCode / optimizeCode(code, feedback) ----
    cpc,         \* position of the code agent call
    cop,         \* which operation is running: "generate" or "optimize"
    creq,        \* request argument of generateCode
    cplan,       \* plan argument of generateCode
    cin,         \* code argument of optimizeCode
    creply,      \* local `response` / `optimizedResponse`
    cfailed,     \* an external call of this call rejected
    cafter,      \* external calls made after that rejection
    cout,        \* value returned by the call
    cseen,       \* bundles returned so far by failed generateCode calls, per request
    \* ---- OptimizerAgent.optimizeCode (one call) ----
    opc,         \* position of the call
    oarg,        \* the bundle object passed as `code`, as it is now
    obefore,     \* what that bundle held when the call was made
    oresult,     \* local `result`
    \* ---- one rewrite pass of the optimizer, applied repeatedly ----
    wkind,       \* the pass: "performance", "security" or "maintainability"
    wbundle,     \* the bundle after the passes applied so far
    wprev,       \* the bundle before the last pass
    wpasses,     \* number of passes applied
    \* ---- DeployAgent: deployApp / checkDeploymentStatus / rollbackDeployment ----
    dpc,         \* position of the deploy agent call
    dop,         \* which operation is running: "deploy", "status" or "rollback"
    dplatform,   \* config.platform / the platform argument
    did,         \* the deploymentId argument, or the id the provider assigned
    dcode,       \* code argument of deployApp
    dstep,       \* index of the next request of the call
    dnet,        \* the requests the call has sent to the provider, in order
    dout,        \* value returned by the call
    dcreds,      \* the providers whose credential the agent holds
    remote,      \* the deployments each provider holds, newest first
    dwatch,      \* a deployment checkDeploymentStatus has reported ready or error for
    \* ---- two concurrent generateApp runs on one orchestrator ----
    gpc,         \* position of each run in generateApp
    gsub,        \* position of each run inside LLaMA3LLM.generate
    glogs,       \* result.logs of each run
    pipeline,    \* researchAgent.llama3LLM.pipeline, with the run that assigned it
    shared,      \* the accesses of a run to a value the other run wrote
    \* ---- ResearchAgent: cache lookup and updateKnowledgeBase calls ----
    lpc,         \* position of the searchWithCachedResults call
    lkeywords,   \* its keywords argument
    lout,        \* value it returned
    kpc,         \* position of each updateKnowledgeBase call
    klocal,      \* local `knowledgeBase` of each call
    kinsights,   \* the insights argument of each call, as a number
    kthread,     \* the call that is running, or "none"
    kissued,     \* number of updateKnowledgeBase calls made
    kappended,   \* the entries appended to the knowledge base, in order
    kbFile,      \* knowledge-base.json
    \* ---- getSimilarApps / WebResearch.researchApp (one call) ----
    fpc,         \* position of the call
    fop,         \* which function runs: "similar" or "research"
    fquery,      \* the state of each of the four searches
    franked      \* number of searches whose results were ranked

orchVars == <<pc, request, calls, result, plan, deployment, genLog, vercelToken>>
resVars == <<rpc, rprompt, keywords, engine, tried, results, returned, summary, rthrew,
            cacheFile>>
planVars == <<ppc, pop, preq, pin, panalysis, preply, pfailed, pafter, pout, seen>>
codeVars == <<cpc, cop, creq, cplan, cin, creply, cfailed, cafter, cout, cseen>>
optVars == <<opc, oarg, obefore, oresult>>
passVars == <<wkind, wbundle, wprev, wpasses>>
deployVars == <<dpc, dop, dplatform, did, dcode, dstep, dnet, dout, dcreds, remote, dwatch>>
runVars == <<gpc, gsub, glogs, pipeline, shared>>
fileVars == <<lpc, lkeywords, lout, kpc, klocal, kinsights, kthread, kissued, kappended, kbFile>>
fanVars == <<fpc, fop, fquery, franked>>
vars == <<orchVars, resVars, planVars, codeVars, optVars, passVars, deployVars, runVars,
          fileVars, fanVars>>

-----------------------------------------------------------------------------
(* Generic helpers *)

Null == <<>>
Some(v) == <<v>>
Range(s) == {s[i] : i \in DOMAIN s}
Min(a, b) == IF a < b THEN a ELSE b

RECURSIVE SumSeq(_)
SumSeq(s) == IF s = <<>> THEN 0 ELSE Head(s) + SumSeq(Tail(s))

Take(s, n) == SubSeq(s, 1, Min(n, Len(s)))

-----------------------------------------------------------------------------
(* Strings, as the JavaScript runtime handles them. A string is a TLA+      *)
(* string; a position is 1-based, an index (indexOf) 0-based as in the code *)

\* the positions at which s occurs in c
positions(c, s) == {i \in 1..(Len(c) - Len(s) + 1) : SubSeq(c, i, i + Len(s) - 1) = s}

MinOf(S) == CHOOSE i \in S : \A j \in S : i <= j

\* String.prototype.includes
includes(c, s) == positions(c, s) # {}

\* String.prototype.indexOf
indexOf(c, s) == IF includes(c, s) THEN MinOf(positions(c, s)) - 1 ELSE -1

\* String.prototype.replace with a string pattern: the first occurrence only
replace(c, s, r) ==
    IF ~includes(c, s) THEN c
    ELSE LET i == MinOf(positions(c, s))
         IN SubSeq(c, 1, i - 1) \o r \o SubSeq(c, i + Len(s), Len(c))

startsWith(c, s) == Len(s) <= Len(c) /\ SubSeq(c, 1, Len(s)) = s

\* String.prototype.split with a one-character separator
RECURSIVE split(_, _)
split(c, sep) ==
    IF ~includes(c, sep) THEN <<c>>
    ELSE LET i == MinOf(positions(c, sep))
         IN <<SubSeq(c, 1, i - 1)>> \o split(SubSeq(c, i + 1, Len(c)), sep)

\* Array.prototype.join
RECURSIVE join(_, _)
join(parts, sep) ==
    IF parts = <<>> THEN ""
    ELSE IF Len(parts) = 1 THEN parts[1]
    ELSE parts[1] \o sep \o join(Tail(parts), sep)

isSpace(ch) == ch \in {" ", "\t", "\n", "\r"}

RECURSIVE trimStart(_)
trimStart(c) == IF Len(c) > 0 /\ isSpace(SubSeq(c, 1, 1)) THEN trimStart(Tail(c)) ELSE c

RECURSIVE trimEnd(_)
trimEnd(c) ==
    IF Len(c) > 0 /\ isSpace(SubSeq(c, Len(c), Len(c)))
    THEN trimEnd(SubSeq(c, 1, Len(c) - 1)) ELSE c

\* String.prototype.trim
trim(c) == trimEnd(trimStart(c))

\* line.match(/import\s*{([^}]+)}\s*from/) tried at the occurrence of
\* 'import' at position i: the captured group, or Null
importMatchAt(line, i) ==
    LET a == trimStart(SubSeq(line, i + 6, Len(line)))
    IN IF ~startsWith(a, "{") \/ ~includes(a, "}") THEN Null
       ELSE LET r == MinOf(positions(a, "}"))
                group == SubSeq(a, 2, r - 1)
                rest == trimStart(SubSeq(a, r + 1, Len(a)))
            IN IF group # "" /\ startsWith(rest, "from") THEN Some(group) ELSE Null

\* line.match(/import\s*{([^}]+)}\s*from/): the group of the leftmost match
importMatch(line) ==
    LET M == {i \in positions(line, "import") : importMatchAt(line, i) # Null}
    IN IF M = {} THEN Null ELSE importMatchAt(line, MinOf(M))

\* importMatch[1].split(',').map(imp => imp.trim())
importNames(group) == LET parts == split(group, ",") IN [i \in DOMAIN parts |-> trim(parts[i])]

\* content.replace(/<img([^>]*)>/g, '<img$1 loading="lazy" />')
RECURSIVE replaceImg(_)
replaceImg(c) ==
    IF ~includes(c, "<img") THEN c
    ELSE LET i == MinOf(positions(c, "<img"))
             after == SubSeq(c, i + 4, Len(c))
         IN IF ~includes(after, ">") THEN c
            ELSE LET j == MinOf(positions(after, ">"))
                 IN SubSeq(c, 1, i - 1) \o "<img" \o SubSeq(after, 1, j - 1)
                    \o " loading=\"lazy\" />" \o replaceImg(SubSeq(after, j + 1, Len(after)))

-----------------------------------------------------------------------------
(* Words *)

LowerLetters == <<"a", "c", "d", "h", "i", "l", "o", "p", "s", "t">>
UpperLetters == <<"A", "C", "D", "H", "I", "L", "O", "P", "S", "T">>

toUpperCase(c) ==
    IF \E i \in DOMAIN LowerLetters : LowerLetters[i] = c
    THEN UpperLetters[CHOOSE i \in DOMAIN LowerLetters : LowerLetters[i] = c]
    ELSE c

toLowerCase(c) ==
    IF \E i \in DOMAIN UpperLetters : UpperLetters[i] = c
    THEN LowerLetters[CHOOSE i \in DOMAIN UpperLetters : UpperLetters[i] = c]
    ELSE c

wordToLowerCase(w) == [i \in DOMAIN w |-> toLowerCase(w[i])]
textToLowerCase(t) == [i \in DOMAIN t |-> wordToLowerCase(t[i])]

W_todo == <<"t", "o", "d", "o">>
W_Todo == <<"T", "o", "d", "o">>
W_list == <<"l", "i", "s", "t">>
W_app == <<"a", "p", "p">>
W_chat == <<"c", "h", "a", "t">>
W_cpp == <<"c", "+", "+">>

Prompts == { <<W_todo, W_list, W_app>>, <<W_Todo, W_app>>, <<W_app>> }

-----------------------------------------------------------------------------
(* Replies of the text-generation service *)

Reply(kind, value) == [kind |-> kind, value |-> value]
FailReply == Reply("fail", <<>>)
TextReply == Reply("text", <<>>)
BadJsonReply == Reply("badjson", <<>>)
JsonReply(v) == Reply("json", v)

\* result of a call that may throw
Threw(msg) == [threw |-> TRUE, error |-> msg, value |-> <<>>]
Returned(v) == [threw |-> FALSE, error |-> "", value |-> v]

LLMError == "LLM unavailable"

-----------------------------------------------------------------------------
(* ResearchAgent: pure parts *)

\* Program constants of ResearchAgent
MaxKeywords == 5
MinWordLen == 3
MaxResults == 5
RelevanceCap == 10
SimilarityNum == 7
SimilarityDen == 10

KeywordReplies ==
    { FailReply, TextReply, BadJsonReply,
      JsonReply(<<W_todo, W_list>>), JsonReply(<<W_cpp>>), JsonReply(<<>>) }

\* ResearchAgent.extractKeywords: the generate call is awaited outside the
\* try block, so a rejection propagates; a missing or unparseable array
\* falls back to the prompt's words longer than 3 characters, first 5.
extractKeywords(prompt, reply) ==
    IF reply.kind = "fail" THEN Threw(LLMError)
    ELSE IF reply.kind = "json" THEN Returned(reply.value)
    ELSE LET IsLong(w) == Len(w) > MinWordLen
         IN Returned(Take(SelectSeq(textToLowerCase(prompt), IsLong), MaxKeywords))

\* new RegExp(keyword, 'g') throws a SyntaxError on a dangling quantifier
regexThrows(w) ==
    \E i \in DOMAIN w : w[i] = "+" /\ (i = 1 \/ w[i - 1] = "+")

countMatches(content, keyword) ==
    Cardinality({i \in DOMAIN content :
                    wordToLowerCase(content[i]) = wordToLowerCase(keyword)})

\* ResearchAgent.calculateRelevance, in tenths: min(sum of matches, 1.0)
calculateRelevance(content, kws) ==
    Min(SumSeq([i \in DOMAIN kws |-> countMatches(content, kws[i])]), RelevanceCap)

S_none == <<W_chat>>
S_low == <<W_Todo, W_app>>
S_high == <<W_todo, W_todo, W_list>>
S_sat == [i \in 1..12 |-> W_todo]

Entry(url, snippet, complete) == [url |-> url, snippet |-> snippet, complete |-> complete]
Result(url, content, relevance) == [url |-> url, content |-> content, relevance |-> relevance]

PageEmpty == <<>>
PageTwo == << Entry("u1", S_low, TRUE), Entry("u2", S_high, TRUE) >>
PageLong == << Entry("u3", S_none, TRUE), Entry("u4", S_low, FALSE),
               Entry("u5", S_sat, TRUE), Entry("u6", S_low, TRUE),
               Entry("u7", S_high, TRUE), Entry("u8", S_sat, TRUE) >>

\* outcome of one HTTP GET against a search engine
HttpFail == [ok |-> FALSE, page |-> <<>>]
HttpPage(p) == [ok |-> TRUE, page |-> p]
HttpOutcomes == { HttpFail, HttpPage(PageEmpty), HttpPage(PageTwo), HttpPage(PageLong) }

\* The `.each` loops of searchWeb and searchWithAlternativeEngines: the first
\* five elements, those with title, url and snippet; calculateRelevance
\* throws out of the loop when a keyword is not a valid regular expression.
extractResults(http, kws) ==
    IF ~http.ok THEN Threw("Network Error")
    ELSE LET IsComplete(e) == e.complete
             kept == SelectSeq(Take(http.page, MaxResults), IsComplete)
         IN IF kept # <<>> /\ \E k \in Range(kws) : regexThrows(k)
            THEN Threw("Invalid regular expression")
            ELSE Returned([i \in DOMAIN kept |->
                    Result(kept[i].url, kept[i].snippet,
                           calculateRelevance(kept[i].snippet, kws))])

\* keywords.join(' ').toLowerCase().split(' ') as a set of tokens
queryTokens(kws) ==
    IF kws = <<>> THEN {<<>>} ELSE {wordToLowerCase(w) : w \in Range(kws)}

cachedTokens(query) == IF query = <<>> THEN {<<>>} ELSE Range(query)

\* ResearchAgent.calculateQuerySimilarity as the pair <<|A n B|, |A u B|>>
calculateQuerySimilarity(tokens1, tokens2) ==
    << Cardinality(tokens1 \cap tokens2), Cardinality(tokens1 \cup tokens2) >>

\* the threshold test with 0.7 itself accepted
isSimilar_atLeast(sim) == sim[1] * SimilarityDen >= SimilarityNum * sim[2]

\* similarity > 0.7, on the pair <<|A n B|, |A u B|>>
isSimilar(sim) == sim[1] * SimilarityDen > SimilarityNum * sim[2]

CacheEntry(query, res) == [query |-> query, results |-> res]
CachedA == << Result("c1", S_low, 2), Result("c2", S_high, 9) >>
CachedB == << Result("c3", S_none, 4) >>

CacheFiles ==
    { [status |-> "missing", entries |-> <<>>],
      [status |-> "corrupt", entries |-> <<>>],
      [status |-> "ok", entries |-> << CacheEntry(<<W_todo, W_list, W_app>>, CachedB),
                                       CacheEntry(<<W_todo, W_list>>, CachedA) >>],
      [status |-> "ok", entries |-> << CacheEntry(<<W_todo>>, <<>>),
                                       CacheEntry(<<W_chat>>, CachedB) >>] }

\* ResearchAgent.searchWithCachedResults: the results of the first cached
\* query whose similarity exceeds 0.7; every error is caught.
searchWithCachedResults(kws, file) ==
    IF file.status # "ok" THEN <<>>
    ELSE LET hits == {i \in DOMAIN file.entries :
                        isSimilar(calculateQuerySimilarity(
                            queryTokens(kws), cachedTokens(file.entries[i].query)))}
         IN IF hits = {} THEN <<>>
            ELSE file.entries[CHOOSE i \in hits : \A j \in hits : i <= j].results

KnowledgeReplies ==
    { FailReply, TextReply, BadJsonReply, JsonReply(<<>>),
      JsonReply(<< Result("k1", S_low, 3), Result("k2", S_high, 8) >>),
      JsonReply(<< Result("k3", S_low, 15), Result("k4", S_none, 6) >>) }

\* ResearchAgent.searchWithAIKnowledge: the parsed array as it is; every
\* error is caught and gives no results.
searchWithAIKnowledge(reply) ==
    IF reply.kind = "json" THEN reply.value ELSE <<>>

\* Array.prototype.sort((a, b) => b.relevance - a.relevance): stable,
\* descending by relevance
RECURSIVE insertByRelevance(_, _)
insertByRelevance(sorted, r) ==
    IF sorted = <<>> THEN <<r>>
    ELSE IF Head(sorted).relevance >= r.relevance
         THEN <<Head(sorted)>> \o insertByRelevance(Tail(sorted), r)
         ELSE <<r>> \o sorted

\* sortByRelevance with the results left in the order of arrival
sortByRelevance_unsorted(rs) == rs

RECURSIVE sortByRelevance(_)
sortByRelevance(rs) ==
    IF rs = <<>> THEN <<>>
    ELSE insertByRelevance(sortByRelevance(SubSeq(rs, 1, Len(rs) - 1)), rs[Len(rs)])

SummaryFields == { "overallInsights", "recommendedTechStack", "designPatterns",
                   "codeExamples", "bestPractices", "potentialIssues" }

fallbackSummary ==
    [ overallInsights |-> <<"Research completed successfully">>,
      recommendedTechStack |-> <<"React", "TypeScript", "Tailwind CSS">>,
      designPatterns |-> <<"Component-based architecture", "Responsive design">>,
      codeExamples |-> <<"Modern React patterns", "TypeScript interfaces">>,
      bestPractices |-> <<"Code organization", "Error handling">>,
      potentialIssues |-> <<"Performance optimization", "Accessibility">> ]

llmSummary == [f \in SummaryFields |-> <<"from the model">>]
partialSummary == [f \in {"overallInsights"} |-> <<"from the model">>]
emptyObject == [f \in {} |-> <<>>]

AnalysisReplies ==
    { FailReply, TextReply, BadJsonReply,
      JsonReply(llmSummary), JsonReply(partialSummary), JsonReply(emptyObject) }

\* ResearchAgent.analyzeResults: the generate call is awaited outside the try
\* block; the parsed object is returned as it is; otherwise the static summary.
analyzeResults(reply) ==
    IF reply.kind = "fail" THEN Threw(LLMError)
    ELSE IF reply.kind = "json" THEN Returned(reply.value)
    ELSE Returned(fallbackSummary)

-----------------------------------------------------------------------------
(* ResearchAgent.researchApp, one step per external call *)

StrategyOrder == <<"primary", "engine1", "engine2", "engine3", "cache", "knowledge">>
NumEngines == 3

Attempt(strategy, failed, yield) ==
    [strategy |-> strategy, failed |-> failed, yield |-> yield]

\* fallbackNext with the cache consulted before the alternative engines
fallbackNext_cacheFirst(strategy, o) ==
    IF ~o.threw /\ o.value # <<>> THEN "sort"
    ELSE CASE strategy = "primary" -> "cache"
           [] strategy = "cache" -> "engine"
           [] strategy = "engine1" -> "engine"
           [] strategy = "engine2" -> "engine"
           [] strategy = "engine3" -> "knowledge"
           [] strategy = "knowledge" -> "sort"

\* fallbackNext with an exception of a strategy ending the chain
fallbackNext_abort(strategy, o) ==
    IF o.threw \/ o.value # <<>> THEN "sort"
    ELSE CASE strategy = "primary" -> "engine"
           [] strategy = "engine1" -> "engine"
           [] strategy = "engine2" -> "engine"
           [] strategy = "engine3" -> "cache"
           [] strategy = "cache" -> "knowledge"
           [] strategy = "knowledge" -> "sort"

\* Control flow of searchWeb (lines 121-129), fallbackSearch (216-231) and
\* searchWithAlternativeEngines (246-290) after a strategy has finished with
\* outcome o: a non-empty yield ends the chain, anything else (an exception
\* included) moves on to the next strategy; after the last one the chain
\* ends with no results.
fallbackNext(strategy, o) ==
    IF ~o.threw /\ o.value # <<>> THEN "sort"
    ELSE CASE strategy = "primary" -> "engine"
           [] strategy = "engine1" -> "engine"
           [] strategy = "engine2" -> "engine"
           [] strategy = "engine3" -> "cache"
           [] strategy = "cache" -> "knowledge"
           [] strategy = "knowledge" -> "sort"

\* what the chain holds after a strategy finished with outcome o
yieldOf(o) == IF o.threw THEN <<>> ELSE o.value

ResearchIdle ==
    /\ rpc = "idle"
    /\ rprompt = <<>>
    /\ keywords = <<>>
    /\ engine = 0
    /\ tried = <<>>
    /\ results = <<>>
    /\ returned = Null
    /\ summary = Null
    /\ rthrew = "none"

\* researchApp(prompt) is called
ResearchApp ==
    /\ rpc \in {"idle", "done", "threw"}
    /\ \E p \in Prompts : rprompt' = p
    /\ rpc' = "extractKeywords"
    /\ keywords' = <<>>
    /\ engine' = 0
    /\ tried' = <<>>
    /\ results' = <<>>
    /\ returned' = Null
    /\ summary' = Null
    /\ rthrew' = "none"
    /\ UNCHANGED cacheFile

\* step 1 of researchApp
ExtractKeywords ==
    /\ rpc = "extractKeywords"
    /\ \E reply \in KeywordReplies :
         LET k == extractKeywords(rprompt, reply)
         IN IF k.threw
            THEN /\ rpc' = "threw"
                 /\ rthrew' = "extractKeywords"
                 /\ UNCHANGED keywords
            ELSE /\ rpc' = "primary"
                 /\ keywords' = k.value
                 /\ UNCHANGED rthrew
    /\ UNCHANGED <<rprompt, engine, tried, results, returned, summary, cacheFile>>

\* one strategy has finished with outcome o: record it and move on
StrategyDone(strategy, failed, o) ==
    LET next == fallbackNext(strategy, o)
    IN /\ tried' = Append(tried, Attempt(strategy, failed, yieldOf(o)))
       /\ results' = results \o yieldOf(o)
       /\ IF next = "threw"
          THEN rpc' = "threw" /\ rthrew' = "searchWeb"
          ELSE rpc' = next /\ UNCHANGED rthrew
       /\ engine' = IF next = "engine" THEN engine + 1 ELSE engine
       /\ UNCHANGED <<rprompt, keywords, returned, summary, cacheFile>>

\* searchWeb: the primary provider
SearchWeb ==
    /\ rpc = "primary"
    /\ \E http \in HttpOutcomes :
         LET o == extractResults(http, keywords)
         IN StrategyDone("primary", o.threw, o)

\* searchWithAlternativeEngines: one engine of the fixed sequence
SearchWithAlternativeEngines ==
    /\ rpc = "engine"
    /\ engine \in 1..NumEngines
    /\ \E http \in HttpOutcomes :
         LET o == extractResults(http, keywords)
         IN StrategyDone(StrategyOrder[1 + engine], o.threw, o)

\* searchWithCachedResults
SearchWithCachedResults ==
    /\ rpc = "cache"
    /\ StrategyDone("cache", cacheFile.status = "corrupt",
                    Returned(searchWithCachedResults(keywords, cacheFile)))

\* searchWithAIKnowledge
SearchWithAIKnowledge ==
    /\ rpc = "knowledge"
    /\ \E reply \in KnowledgeReplies :
         StrategyDone("knowledge", reply.kind # "json",
                      Returned(searchWithAIKnowledge(reply)))

\* searchWeb returns results.sort(...)
SearchWebReturn ==
    /\ rpc = "sort"
    /\ returned' = Some(sortByRelevance(results))
    /\ rpc' = "analyze"
    /\ UNCHANGED <<rprompt, keywords, engine, tried, results, summary, rthrew, cacheFile>>

\* step 3 of researchApp
AnalyzeResults ==
    /\ rpc = "analyze"
    /\ \E reply \in AnalysisReplies :
         LET a == analyzeResults(reply)
         IN IF a.threw
            THEN /\ rpc' = "threw"
                 /\ rthrew' = "analyzeResults"
                 /\ UNCHANGED summary
            ELSE /\ rpc' = "done"
                 /\ summary' = Some(a.value)
                 /\ UNCHANGED rthrew
    /\ UNCHANGED <<rprompt, keywords, engine, tried, results, returned, cacheFile>>

ResearchNext ==
    \/ ResearchApp
    \/ ExtractKeywords
    \/ SearchWeb
    \/ SearchWithAlternativeEngines
    \/ SearchWithCachedResults
    \/ SearchWithAIKnowledge
    \/ SearchWebReturn
    \/ AnalyzeResults

-----------------------------------------------------------------------------
(* PlannerAgent: pure parts *)

MaxNameWords == 2
W_App == <<"A", "p", "p">>

capitalize(w) == [i \in DOMAIN w |-> IF i = 1 THEN toUpperCase(w[i]) ELSE w[i]]

\* PlannerAgent.generateAppName: the first two words longer than 3
\* characters, capitalised and joined, followed by " App"; with no such
\* word the joined part is the empty word.
generateAppName(prompt) ==
    LET IsLong(w) == Len(w) > MinWordLen
        kws == Take(SelectSeq(textToLowerCase(prompt), IsLong), MaxNameWords)
    IN (IF kws = <<>> THEN << <<>> >> ELSE [i \in DOMAIN kws |-> capitalize(kws[i])])
       \o <<W_App>>

\* the literal of createFallbackPlan, and of the catch block of parsePlan
createFallbackPlan(prompt) ==
    [ name |-> generateAppName(prompt),
      description |-> "AI-generated app based on your request",
      features |-> <<"User interface", "Data management", "Responsive design">>,
      techStack |-> [ frontend |-> "React + TypeScript + Tailwind CSS",
                      backend |-> "Node.js + Express",
                      database |-> "PostgreSQL",
                      deployment |-> "Vercel" ],
      structure |-> [ pages |-> <<"Home", "Dashboard">>,
                      components |-> <<"Header", "Main", "Footer">>,
                      api |-> <<"/api/data">> ],
      timeline |-> "1-2 days",
      complexity |-> "simple" ]

\* planData.key || fallback, for a key that is absent or holds a truthy value
orElse(obj, key, fallback) == IF key \in DOMAIN obj THEN obj[key] ELSE fallback

\* planData.key?.sub || fallback
orElseIn(obj, key, sub, fallback) ==
    IF key \in DOMAIN obj THEN orElse(obj[key], sub, fallback) ELSE fallback

\* PlannerAgent.parsePlan: the payload's fields with a default for each one
\* that is missing; without a parseable payload, the fallback literal.
parsePlan(reply, originalPrompt) ==
    IF reply.kind = "json"
    THEN LET planData == reply.value
         IN [ name |-> orElse(planData, "name", generateAppName(originalPrompt)),
              description |-> orElse(planData, "description", "AI-generated app"),
              features |-> orElse(planData, "features", <<>>),
              techStack |->
                [ frontend |-> orElseIn(planData, "techStack", "frontend", "React + TypeScript"),
                  backend |-> orElseIn(planData, "techStack", "backend", "Node.js + Express"),
                  database |-> orElseIn(planData, "techStack", "database", "PostgreSQL"),
                  deployment |-> orElseIn(planData, "techStack", "deployment", "Vercel") ],
              structure |->
                [ pages |-> orElseIn(planData, "structure", "pages", <<"Home">>),
                  components |-> orElseIn(planData, "structure", "components", <<"App">>),
                  api |-> orElseIn(planData, "structure", "api", <<>>) ],
              timeline |-> orElse(planData, "timeline", "1-2 days"),
              complexity |-> orElse(planData, "complexity", "simple") ]
    ELSE createFallbackPlan(originalPrompt)

W_Shop == <<"S", "h", "o", "p">>

\* payloads a planning reply can carry
fullPlanData ==
    [ name |-> <<W_Shop, W_App>>,
      description |-> "A shop",
      features |-> <<"Cart", "Checkout">>,
      techStack |-> [ frontend |-> "Vue", backend |-> "Go",
                      database |-> "MongoDB", deployment |-> "Netlify" ],
      structure |-> [ pages |-> <<"Home", "Cart">>,
                      components |-> <<"Header", "CartItem">>,
                      api |-> <<"/api/cart">> ],
      timeline |-> "2-3 days for MVP",
      complexity |-> "complex" ]

partialPlanData ==
    [ structure |-> [ pages |-> <<>> ], complexity |-> "medium" ]

\* a payload whose complexity is none of the three values of AppPlan
unlistedPlanData ==
    [ structure |-> [ pages |-> <<"Home">> ], complexity |-> "extreme" ]

Complexities == {"simple", "medium", "complex"}

PlanReplies ==
    { FailReply, TextReply, BadJsonReply,
      JsonReply(fullPlanData), JsonReply(partialPlanData), JsonReply(emptyObject),
      JsonReply(unlistedPlanData) }

\* replies of the analysis call: free text, used only inside the next prompt
PlanAnalysisReplies == { FailReply, Reply("text", <<"a simple app">>),
                         Reply("text", <<"a complex app">>) }

Platforms == {"web", "mobile"}
Requests == [prompt : Prompts, platform : Platforms]

\* plans handed to refinePlan: results of earlier planApp calls
InputPlans ==
    { parsePlan(JsonReply(fullPlanData), <<W_todo, W_list, W_app>>),
      parsePlan(JsonReply(partialPlanData), <<W_todo, W_list, W_app>>),
      createFallbackPlan(<<W_app>>) }

\* PlannerAgent.planApp as one call: any rejection inside the try block is
\* caught and answered with createFallbackPlan(request.prompt).
planApp(req, clientOk, analysisReply, planReply) ==
    IF ~clientOk \/ analysisReply.kind = "fail" \/ planReply.kind = "fail"
    THEN createFallbackPlan(req.prompt)
    ELSE parsePlan(planReply, req.prompt)

-----------------------------------------------------------------------------
(* PlannerAgent.planApp and refinePlan, one step per external call *)

MaxRepeats == 2

\* planAppNext with a step that rejected attempted again
planAppNext_retry(step, ok) ==
    IF ~ok THEN step
    ELSE CASE step = "getModelClient" -> "analysis"
           [] step = "analysis" -> "planning"
           [] step = "planning" -> "return"

\* Control flow of the try block of planApp (lines 332-360): a step that
\* rejects transfers to the catch block, which returns the fallback plan.
planAppNext(step, ok) ==
    IF ~ok THEN "catch"
    ELSE CASE step = "getModelClient" -> "analysis"
           [] step = "analysis" -> "planning"
           [] step = "planning" -> "return"

PlannerIdle ==
    /\ ppc = "idle"
    /\ pop = "none"
    /\ preq = [prompt |-> <<>>, platform |-> "web"]
    /\ pin = Null
    /\ panalysis = Null
    /\ preply = Null
    /\ pfailed = FALSE
    /\ pafter = 0
    /\ pout = Null
    /\ seen = [p \in Prompts |-> [plans |-> {}, n |-> 0]]

\* the failed planApp call on preq returns plan p
Remember(p) ==
    seen' = [seen EXCEPT ![preq.prompt] =
                [plans |-> @.plans \cup {p}, n |-> Min(@.n + 1, MaxRepeats)]]

\* one external call of planApp has finished; ok is FALSE when it rejected
PlanStep(step, ok, analysis, reply) ==
    LET next == planAppNext(step, ok)
        failed == pfailed \/ ~ok
    IN /\ pafter' = IF pfailed THEN pafter + 1 ELSE pafter
       /\ pfailed' = failed
       /\ panalysis' = analysis
       /\ preply' = reply
       /\ CASE next = "catch" ->
                 /\ ppc' = "done"
                 /\ pout' = Some(createFallbackPlan(preq.prompt))
                 /\ Remember(createFallbackPlan(preq.prompt))
            [] next = "return" ->
                 /\ ppc' = "done"
                 /\ pout' = Some(parsePlan(reply[1], preq.prompt))
                 /\ IF failed THEN Remember(parsePlan(reply[1], preq.prompt))
                    ELSE UNCHANGED seen
            [] next = "throw" ->
                 /\ ppc' = "threw"
                 /\ UNCHANGED <<pout, seen>>
            [] OTHER ->
                 /\ ppc' = next
                 /\ UNCHANGED <<pout, seen>>
       /\ UNCHANGED <<pop, preq, pin>>

\* planApp(request, research) is called
PlanApp ==
    /\ ppc \in {"idle", "done", "threw"}
    /\ \E r \in Requests : preq' = r
    /\ pop' = "plan"
    /\ ppc' = "getModelClient"
    /\ pin' = Null
    /\ panalysis' = Null
    /\ preply' = Null
    /\ pfailed' = FALSE
    /\ pafter' = 0
    /\ pout' = Null
    /\ UNCHANGED seen

PlanGetModelClient ==
    /\ pop = "plan" /\ ppc = "getModelClient"
    /\ \E ok \in BOOLEAN : PlanStep("getModelClient", ok, panalysis, preply)

\* step 1 of planApp: the analysis call
PlanAnalysis ==
    /\ pop = "plan" /\ ppc = "analysis"
    /\ \E reply \in PlanAnalysisReplies :
         PlanStep("analysis", reply.kind # "fail",
                  IF reply.kind = "fail" THEN panalysis ELSE Some(reply.value), preply)

\* steps 2 and 3 of planApp: the planning call and parsePlan
PlanPlanning ==
    /\ pop = "plan" /\ ppc = "planning"
    /\ \E reply \in PlanReplies :
         PlanStep("planning", reply.kind # "fail", panalysis, Some(reply))

\* refinePlan(plan, feedback) is called
RefinePlan ==
    /\ ppc \in {"idle", "done", "threw"}
    /\ \E p \in InputPlans : pin' = Some(p)
    /\ pop' = "refine"
    /\ ppc' = "getModelClient"
    /\ panalysis' = Null
    /\ preply' = Null
    /\ pfailed' = FALSE
    /\ pafter' = 0
    /\ pout' = Null
    /\ UNCHANGED <<preq, seen>>

\* refinePlan: a rejection inside the try block returns the input plan
RefineGetModelClient ==
    /\ pop = "refine" /\ ppc = "getModelClient"
    /\ \E ok \in BOOLEAN :
         IF ok THEN /\ ppc' = "refinement"
                    /\ UNCHANGED <<pfailed, pout>>
         ELSE /\ ppc' = "done"
              /\ pfailed' = TRUE
              /\ pout' = pin
    /\ UNCHANGED <<pop, preq, pin, panalysis, preply, pafter, seen>>

\* refinePlan: the refinement call, then parsePlan(text, plan.name)
RefineGenerate ==
    /\ pop = "refine" /\ ppc = "refinement"
    /\ \E reply \in PlanReplies :
         /\ preply' = Some(reply)
         /\ IF reply.kind = "fail"
            THEN pfailed' = TRUE /\ pout' = pin
            ELSE pfailed' = FALSE /\ pout' = Some(parsePlan(reply, pin[1].name))
    /\ ppc' = "done"
    /\ UNCHANGED <<pop, preq, pin, panalysis, pafter, seen>>

PlannerNext ==
    \/ PlanApp
    \/ PlanGetModelClient
    \/ PlanAnalysis
    \/ PlanPlanning
    \/ RefinePlan
    \/ RefineGetModelClient
    \/ RefineGenerate

-----------------------------------------------------------------------------
(* CodeAgent: the templates *)

\* A source text: s is the text with its lines of plain markup left out,
\* pad the number of characters left out. The lines left out are never
\* blank and hold none of the substrings the optimizer looks for, so every
\* test and rewrite acts on s, content.length is Len(s) + pad, and a line
\* number counts the lines of s.
Text(s, pad) == [s |-> s, pad |-> pad]

length(t) == Len(t.s) + t.pad

\* the words of a prompt as the string they were split from
RECURSIVE wordText(_)
wordText(w) == IF w = <<>> THEN "" ELSE Head(w) \o wordText(Tail(w))

promptText(prompt) == join([i \in DOMAIN prompt |-> wordText(prompt[i])], " ")

\* CodeAgent.generateAppComponent
generateAppComponent(req) ==
    Text("import React from 'react';\n"
         \o "import { BrowserRouter as Router, Routes, Route } from 'react-router-dom';\n"
         \o "import Header from './Header';\n"
         \o "import Footer from './Footer';\n"
         \o "import Home from './pages/Home';\n"
         \o "import About from './pages/About';\n"
         \o "\n"
         \o "function App() {\n"
         \o "}\n"
         \o "\n"
         \o "export default App;",
         318)

\* CodeAgent.generateHeaderComponent
generateHeaderComponent ==
    Text("import React from 'react';\n"
         \o "\n"
         \o "function Header() {\n"
         \o "}\n"
         \o "\n"
         \o "export default Header;",
         533)

\* CodeAgent.generateFooterComponent
generateFooterComponent ==
    Text("import React from 'react';\n"
         \o "\n"
         \o "function Footer() {\n"
         \o "}\n"
         \o "\n"
         \o "export default Footer;",
         274)

\* CodeAgent.generateHomePage: the one template that holds ${request.prompt}
generateHomePage(req) ==
    Text("import React from 'react';\n"
         \o "\n"
         \o "function Home() {\n"
         \o "          Welcome to " \o promptText(req.prompt) \o "\n"
         \o "}\n"
         \o "\n"
         \o "export default Home;",
         446)

\* CodeAgent.generateAboutPage
generateAboutPage ==
    Text("import React from 'react';\n"
         \o "\n"
         \o "function About() {\n"
         \o "}\n"
         \o "\n"
         \o "export default About;",
         257)

\* CodeAgent.generateUsersAPI
generateUsersAPI ==
    Text("import express from 'express';\n"
         \o "import { PrismaClient } from '@prisma/client';\n"
         \o "\n"
         \o "const router = express.Router();\n"
         \o "\n"
         \o "router.get('/users', async (req, res) => {\n"
         \o "  try {\n"
         \o "    const users = await prisma.user.findMany();\n"
         \o "    res.json(users);\n"
         \o "  } catch (error) {\n"
         \o "    res.status(500).json({ error: 'Failed to fetch users' });\n"
         \o "});\n"
         \o "\n"
         \o "export default router;",
         39)

\* CodeAgent.generateAuthAPI
generateAuthAPI ==
    Text("import express from 'express';\n"
         \o "import bcrypt from 'bcrypt';\n"
         \o "import jwt from 'jsonwebtoken';\n"
         \o "\n"
         \o "const router = express.Router();\n"
         \o "\n"
         \o "router.post('/login', async (req, res) => {\n"
         \o "  const { email, password } = req.body;\n"
         \o "  \n"
         \o "  res.json({ token: 'jwt-token' });\n"
         \o "});\n"
         \o "\n"
         \o "export default router;",
         31)

\* the bundle literal built from the templates, as written both in the try
\* block of generateCode and in generateFallbackCode
templateBundle(req) ==
    [ frontend |-> [ components |-> ("App.tsx" :> generateAppComponent(req))
                                    @@ ("Header.tsx" :> generateHeaderComponent)
                                    @@ ("Footer.tsx" :> generateFooterComponent),
                     pages |-> ("Home.tsx" :> generateHomePage(req))
                               @@ ("About.tsx" :> generateAboutPage) ],
      backend |-> [ routes |-> ("api/users.ts" :> generateUsersAPI)
                               @@ ("api/auth.ts" :> generateAuthAPI) ] ]

\* CodeAgent.generateFallbackCode
generateFallbackCode(req) == templateBundle(req)

\* CodeAgent.generateCode: the reply of the model is not used; a rejection
\* of getModelClient or generateText is caught and answered with the
\* fallback bundle.
generateCode(planArg, req, clientOk, reply) ==
    IF clientOk /\ reply.kind # "fail"
    THEN templateBundle(req)
    ELSE generateFallbackCode(req)

CodeReplies == { FailReply, TextReply }

-----------------------------------------------------------------------------
(* OptimizerAgent: pure parts *)

MaxFiles == 6

\* the i-th file of a bundle that is built file by file
numberedFile(i, ext) == "File" \o ToString(i) \o ext

\* every file name, in the order in which bundles are filled
FileNames ==
    << "App.tsx", "Header.tsx", "Footer.tsx", "Home.tsx", "About.tsx",
       "api/users.ts", "api/auth.ts" >>
    \o [i \in 1..MaxFiles |-> numberedFile(i, ".tsx")]
    \o [i \in 1..MaxFiles |-> numberedFile(i, ".ts")]

\* Object.keys / Object.entries / Object.values: insertion order
keys(map) == SelectSeq(FileNames, LAMBDA f : f \in DOMAIN map)

RECURSIVE Flatten(_)
Flatten(ss) == IF ss = <<>> THEN <<>> ELSE Head(ss) \o Flatten(Tail(ss))

LintError(line, column, message, severity) ==
    [line |-> line, column |-> column, message |-> message, severity |-> severity]

\* the rules of lintFile applied to line number n of content
lintLine(content, line, n) ==
    LET todo == indexOf(line, "TODO")
        group == importMatch(line)
        names == IF group = Null THEN <<>> ELSE importNames(group[1])
        unused == SelectSeq(names, LAMBDA imp : ~includes(content, imp) /\ ~includes(imp, "*"))
    IN (IF includes(line, "console.log")
        THEN <<LintError(n, indexOf(line, "console.log"),
                         "Remove console.log statements in production code", "warning")>>
        ELSE <<>>)
       \o (IF includes(line, "TODO") \/ includes(line, "FIXME")
           THEN <<LintError(n, IF todo # 0 THEN todo ELSE indexOf(line, "FIXME"),
                            "Address TODO/FIXME comments", "info")>>
           ELSE <<>>)
       \o (IF includes(line, "import") /\ includes(line, "{") /\ includes(line, "}")
           THEN [i \in DOMAIN unused |->
                    LintError(n, indexOf(line, unused[i]), "Unused import: " \o unused[i],
                              "warning")]
           ELSE <<>>)

\* OptimizerAgent.lintFile
lintFile(filename, t, type) ==
    LET lines == split(t.s, "\n")
    IN [ file |-> filename,
         errors |-> Flatten([n \in DOMAIN lines |-> lintLine(t.s, lines[n], n)]) ]

\* the lint results with at least one error, for the files of one map
lintMap(map, type) ==
    LET ks == keys(map)
    IN SelectSeq([i \in DOMAIN ks |-> lintFile(ks[i], map[ks[i]], type)],
                 LAMBDA r : Len(r.errors) > 0)

\* OptimizerAgent.runLinting
runLinting(code) ==
    lintMap(code.frontend.components, "tsx") \o lintMap(code.frontend.pages, "tsx")
    \o lintMap(code.backend.routes, "ts")

\* OptimizerAgent.extractLintIssues
extractLintIssues(lintResults) ==
    Flatten([i \in DOMAIN lintResults |->
        [j \in DOMAIN lintResults[i].errors |->
            LET e == lintResults[i].errors[j]
            IN lintResults[i].file \o ":" \o ToString(e.line) \o ":" \o ToString(e.column)
               \o " - " \o e.message]])

\* OptimizerAgent.calculateCoverage
calculateCoverage(t) ==
    Min(60 + (IF includes(t.s, "test") \/ includes(t.s, "spec") THEN 20 ELSE 0)
           + (IF includes(t.s, "try") \/ includes(t.s, "catch") \/ includes(t.s, "error")
              THEN 10 ELSE 0)
           + (IF includes(t.s, "validate") \/ includes(t.s, "check") THEN 10 ELSE 0), 95)

Test(name) == [name |-> name, passed |-> TRUE]

\* OptimizerAgent.generateRealTests
generateRealTests(componentName, t) ==
    <<Test(componentName \o " renders without crashing")>>
    \o (IF includes(t.s, "interface") /\ includes(t.s, "Props")
        THEN <<Test(componentName \o " accepts props correctly")>> ELSE <<>>)
    \o (IF includes(t.s, "useState") \/ includes(t.s, "useReducer")
        THEN <<Test(componentName \o " manages state correctly")>> ELSE <<>>)
    \o (IF includes(t.s, "useEffect")
        THEN <<Test(componentName \o " handles side effects")>> ELSE <<>>)
    \o (IF includes(t.s, "onClick") \/ includes(t.s, "onChange") \/ includes(t.s, "onSubmit")
        THEN <<Test(componentName \o " handles user interactions")>> ELSE <<>>)

\* OptimizerAgent.generateAPIRealTests
generateAPIRealTests(routeName, t) ==
    <<Test(routeName \o " API endpoint responds")>>
    \o (IF includes(t.s, "GET") \/ includes(t.s, "POST") \/ includes(t.s, "PUT")
           \/ includes(t.s, "DELETE")
        THEN <<Test(routeName \o " handles HTTP methods correctly")>> ELSE <<>>)
    \o (IF includes(t.s, "try") \/ includes(t.s, "catch")
        THEN <<Test(routeName \o " handles errors gracefully")>> ELSE <<>>)
    \o (IF includes(t.s, "validate") \/ includes(t.s, "check")
        THEN <<Test(routeName \o " validates input")>> ELSE <<>>)

TestResult(file, t, tests) ==
    [ file |-> file,
      passed |-> \A i \in DOMAIN tests : tests[i].passed,
      coverage |-> calculateCoverage(t),
      tests |-> tests ]

\* filename.replace('.tsx', '').replace('.ts', '')
componentName(filename) == replace(replace(filename, ".tsx", ""), ".ts", "")

\* OptimizerAgent.generateComponentTest
generateComponentTest(filename, t) ==
    TestResult(filename, t, generateRealTests(componentName(filename), t))

\* OptimizerAgent.generateAPITest
generateAPITest(filename, t) ==
    TestResult(filename, t, generateAPIRealTests(replace(filename, ".ts", ""), t))

\* OptimizerAgent.runTests
runTests(code) ==
    LET cs == keys(code.frontend.components)
        rs == keys(code.backend.routes)
    IN [i \in DOMAIN cs |-> generateComponentTest(cs[i], code.frontend.components[cs[i]])]
       \o [i \in DOMAIN rs |-> generateAPITest(rs[i], code.backend.routes[rs[i]])]

\* OptimizerAgent.extractTestIssues
extractTestIssues(testResults) ==
    Flatten([i \in DOMAIN testResults |->
        LET r == testResults[i]
        IN (IF ~r.passed THEN <<"Tests failed in " \o r.file>> ELSE <<>>)
           \o (IF r.coverage < 80
               THEN <<"Low test coverage in " \o r.file \o ": " \o ToString(r.coverage) \o "%">>
               ELSE <<>>)])

\* the imports of every import line of content that content.includes
usedImports(content) ==
    LET lines == split(content, "\n")
    IN UNION { IF importMatch(lines[n]) = Null THEN {}
               ELSE {imp \in Range(importNames(importMatch(lines[n])[1])) :
                        includes(content, imp) /\ ~includes(imp, "*")} : n \in DOMAIN lines }

\* removeUnusedImports on one line
removeFromLine(line, used) ==
    LET group == importMatch(line)
        names == importNames(group[1])
        usedInLine == SelectSeq(names, LAMBDA imp : imp \in used)
    IN IF group = Null THEN line
       ELSE IF Len(usedInLine) = 0 THEN ""
       ELSE IF Len(usedInLine) < Len(names)
       THEN replace(line, "{" \o group[1] \o "}", "{" \o join(usedInLine, ", ") \o "}")
       ELSE line

\* OptimizerAgent.removeUnusedImports
removeUnusedImports(content) ==
    LET lines == split(content, "\n")
        used == usedImports(content)
        mapped == [n \in DOMAIN lines |-> removeFromLine(lines[n], used)]
    IN join(SelectSeq(mapped, LAMBDA line : trim(line) # ""), "\n")

\* OptimizerAgent.optimizePerformance on one frontend component
performanceComponent(filename, t) ==
    LET name == componentName(filename)
        c1 == IF includes(t.s, "export default") /\ ~includes(t.s, "React.memo")
              THEN replace(t.s, "export default", "export default React.memo(") \o ")"
              ELSE t.s
        c2 == IF includes(c1, "useState") /\ ~includes(c1, "useMemo")
              THEN replace(c1, "import React", "import React, { useMemo, useCallback }")
              ELSE c1
        c3 == IF Len(c2) + t.pad > 1000 /\ ~includes(c2, "lazy")
              THEN replace(c2, "import React", "import React, { lazy, Suspense }")
              ELSE c2
        c4 == replaceImg(c3)
        c5 == IF includes(c4, "export default") /\ Len(c4) + t.pad > 2000
              THEN replace(c4, "export default " \o name,
                           "const " \o name \o " = lazy(() => import('./" \o name
                           \o "'));\nexport default " \o name)
              ELSE c4
    IN Text(removeUnusedImports(c5), t.pad)

\* OptimizerAgent.optimizePerformance on one backend route
performanceRoute(t) ==
    LET c1 == IF includes(t.s, "res.json") /\ ~includes(t.s, "Cache-Control")
              THEN replace(t.s, "res.json(",
                           "res.set(\"Cache-Control\", \"public, max-age=300\");\n    res.json(")
              ELSE t.s
        c2 == IF ~includes(c1, "compression")
              THEN replace("import compression from \"compression\";\n" \o c1,
                           "app.use(express.json())",
                           "app.use(compression());\napp.use(express.json())")
              ELSE c1
        c3 == IF ~includes(c2, "rateLimit")
              THEN replace("import rateLimit from \"express-rate-limit\";\n" \o c2,
                           "app.use(express.json())",
                           "app.use(rateLimit({ windowMs: 15 * 60 * 1000, max: 100 }));\napp.use(express.json())")
              ELSE c2
    IN Text(c3, t.pad)

\* OptimizerAgent.optimizePerformance
optimizePerformance(code) ==
    [ code EXCEPT
        !.frontend.components = [f \in DOMAIN @ |-> performanceComponent(f, @[f])],
        !.backend.routes = [f \in DOMAIN @ |-> performanceRoute(@[f])] ]

\* optimizeSecurity on one backend route with the CORS import added
\* whatever the text holds
securityRoute_unguarded(t) ==
    LET c1 == IF includes(t.s, "req.body") /\ ~includes(t.s, "validate")
              THEN replace(t.s, "req.body", "validateInput(req.body)")
              ELSE t.s
    IN Text(replace("import cors from \"cors\";\n" \o c1,
                    "app.use(express.json())",
                    "app.use(cors());\napp.use(express.json())"), t.pad)

\* OptimizerAgent.optimizeSecurity on one backend route
securityRoute(t) ==
    LET c1 == IF includes(t.s, "req.body") /\ ~includes(t.s, "validate")
              THEN replace(t.s, "req.body", "validateInput(req.body)")
              ELSE t.s
        c2 == IF ~includes(c1, "cors")
              THEN replace("import cors from \"cors\";\n" \o c1,
                           "app.use(express.json())",
                           "app.use(cors());\napp.use(express.json())")
              ELSE c1
    IN Text(c2, t.pad)

\* OptimizerAgent.optimizeSecurity
optimizeSecurity(code) ==
    [code EXCEPT !.backend.routes = [f \in DOMAIN @ |-> securityRoute(@[f])]]

\* OptimizerAgent.optimizeMaintainability on one frontend component
maintainabilityComponent(filename, t) ==
    IF includes(t.s, "props") /\ ~includes(t.s, "interface")
    THEN Text("\ninterface " \o replace(filename, ".tsx", "")
              \o "Props {\n  // Define props here\n}\n\n" \o t.s, t.pad)
    ELSE t

\* OptimizerAgent.optimizeMaintainability
optimizeMaintainability(code) ==
    [code EXCEPT !.frontend.components = [f \in DOMAIN @ |-> maintainabilityComponent(f, @[f])]]

\* the penalties of the files of one map, added up
penalties(map, penalty(_)) ==
    LET ks == keys(map) IN SumSeq([i \in DOMAIN ks |-> penalty(map[ks[i]])])

\* Math.max(0, score) with the floor left out
floorScore_unfloored(score) == score

\* Math.max(0, score)
floorScore(score) == IF score < 0 THEN 0 ELSE score

\* OptimizerAgent.calculatePerformanceScore
calculatePerformanceScore(code) ==
    LET penalty(t) == (IF includes(t.s, "console.log") THEN 5 ELSE 0)
                      + (IF includes(t.s, "useEffect") /\ ~includes(t.s, "[]") THEN 10 ELSE 0)
                      + (IF ~includes(t.s, "React.memo") THEN 5 ELSE 0)
    IN floorScore(100 - penalties(code.frontend.components, penalty))

\* OptimizerAgent.calculateSecurityScore
calculateSecurityScore(code) ==
    LET penalty(t) == (IF ~includes(t.s, "cors") THEN 10 ELSE 0)
                      + (IF ~includes(t.s, "validate") THEN 15 ELSE 0)
                      + (IF includes(t.s, "eval(") THEN 50 ELSE 0)
                      + (IF includes(t.s, "innerHTML") THEN 20 ELSE 0)
    IN floorScore(100 - penalties(code.backend.routes, penalty))

\* OptimizerAgent.calculateMaintainabilityScore
calculateMaintainabilityScore(code) ==
    LET penalty(t) == (IF ~includes(t.s, "interface") THEN 10 ELSE 0)
                      + (IF includes(t.s, "any") THEN 5 ELSE 0)
                      + (IF length(t) > 500 THEN 5 ELSE 0)
    IN floorScore(100 - penalties(code.frontend.components, penalty))

\* a bundle has the sections the optimizer and the deployer read
wellFormed(code) ==
    /\ "frontend" \in DOMAIN code
    /\ "backend" \in DOMAIN code
    /\ {"components", "pages"} \subseteq DOMAIN code.frontend
    /\ "routes" \in DOMAIN code.backend

\* the `result` literal of optimizeCode (lines 44-52)
initialResult(code) ==
    [ success |-> TRUE, optimizedCode |-> code, improvements |-> <<>>, issues |-> <<>>,
      performanceScore |-> 0, securityScore |-> 0, maintainabilityScore |-> 0 ]

OptimizeStages == <<"lint", "test", "performance", "security", "maintainability", "scores">>

\* the sections of the bundle a statement of the try block reads
stageReads(stage) ==
    CASE stage = "lint" -> {"components", "pages", "routes"}
      [] stage = "security" -> {"routes"}
      [] stage = "maintainability" -> {"components"}
      [] OTHER -> {"components", "routes"}

sections(code) ==
    (IF "frontend" \in DOMAIN code THEN DOMAIN code.frontend \cap {"components", "pages"} ELSE {})
    \cup (IF "backend" \in DOMAIN code THEN DOMAIN code.backend \cap {"routes"} ELSE {})

\* the statement reads a section the bundle does not have: a TypeError
stageThrows(stage, code) == ~(stageReads(stage) \subseteq sections(code))

TypeErrorMessage == "Cannot read properties of undefined"

\* one statement group of the try block of optimizeCode (lines 55-78)
optimizeStage(stage, res) ==
    LET code == res.optimizedCode
    IN CASE stage = "lint" ->
              [res EXCEPT !.issues = @ \o extractLintIssues(runLinting(code))]
         [] stage = "test" ->
              [res EXCEPT !.issues = @ \o extractTestIssues(runTests(code))]
         [] stage = "performance" ->
              [res EXCEPT !.optimizedCode = optimizePerformance(code),
                          !.improvements = Append(@, "Performance optimizations applied")]
         [] stage = "security" ->
              [res EXCEPT !.optimizedCode = optimizeSecurity(code),
                          !.improvements = Append(@, "Security improvements applied")]
         [] stage = "maintainability" ->
              [res EXCEPT !.optimizedCode = optimizeMaintainability(code),
                          !.improvements = Append(@, "Code maintainability improved")]
         [] stage = "scores" ->
              [res EXCEPT !.performanceScore = calculatePerformanceScore(code),
                          !.securityScore = calculateSecurityScore(code),
                          !.maintainabilityScore = calculateMaintainabilityScore(code)]

\* optimizeCatch with the exception swallowed and nothing recorded
optimizeCatch_silent(res, msg) == res

\* the catch clause of optimizeCode (lines 81-85)
optimizeCatch(res, msg) ==
    [res EXCEPT !.success = FALSE, !.issues = Append(@, "Optimization failed: " \o msg)]

\* the try block from statement group i on, then the return
RECURSIVE optimizeFrom(_, _)
optimizeFrom(i, res) ==
    IF i > Len(OptimizeStages) THEN res
    ELSE IF stageThrows(OptimizeStages[i], res.optimizedCode)
    THEN optimizeCatch(res, TypeErrorMessage)
    ELSE optimizeFrom(i + 1, optimizeStage(OptimizeStages[i], res))

\* OptimizerAgent.optimizeCode: `result` is the OptimizationResult and
\* `argument` what the bundle passed in holds when the call returns. The
\* passes copy the bundle shallowly ({ ...code }) and assign the rewritten
\* texts into its frontend.components and backend.routes maps, which the
\* copy shares with the argument.
optimizeCode(code) ==
    LET res == optimizeFrom(1, initialResult(code))
    IN [result |-> res, argument |-> res.optimizedCode]

Providers == {"vercel", "netlify", "railway", "aws"}

\* outcome of the provider's API call
DeployOutcomes == { [ok |-> FALSE, url |-> ""], [ok |-> TRUE, url |-> "https://d1.vercel.app"] }

providerName(platform) ==
    CASE platform = "vercel" -> "Vercel"
      [] platform = "netlify" -> "Netlify"
      [] platform = "railway" -> "Railway"
      [] platform = "aws" -> "AWS"

\* the message of the credential test of deployToVercel / Netlify / Railway /
\* AWS (deploy TRUE) and of the check... and rollback... functions
credentialMessage(platform, deploy) ==
    CASE platform = "railway" /\ deploy ->
           "Railway token not provided. Set RAILWAY_TOKEN environment variable."
      [] platform = "aws" ->
           "AWS credentials not provided. Set AWS_ACCESS_KEY_ID and AWS_SECRET_ACCESS_KEY environment variables."
      [] OTHER -> providerName(platform) \o " token not provided"

DeploymentResult(success, url, logs, errors) ==
    [success |-> success, url |-> url, logs |-> logs, errors |-> errors]

\* DeployAgent.deployApp: every exception of the try block is caught and
\* becomes an entry of errors; the credential is tested before the request.
deployApp(code, platform, hasToken, outcome) ==
    IF ~wellFormed(code)
    THEN DeploymentResult(FALSE, Null, <<>>, <<"Cannot read properties of undefined">>)
    ELSE IF platform \notin Providers
    THEN DeploymentResult(FALSE, Null, <<>>, <<"Unsupported platform">>)
    ELSE IF ~hasToken
    THEN DeploymentResult(FALSE, Null, <<>>, <<credentialMessage(platform, TRUE)>>)
    ELSE IF ~outcome.ok
    THEN DeploymentResult(FALSE, Null, <<>>, <<"deployment failed">>)
    ELSE DeploymentResult(TRUE, Some(outcome.url), <<"Successfully deployed">>, <<>>)

-----------------------------------------------------------------------------
(* VoxlorOrchestrator.generateApp *)

StageOrder == <<"research", "plan", "code", "optimize", "deploy">>

\* ResearchAgent.researchApp as one call. searchWeb, between the two model
\* calls, catches every error of its strategies, and its results reach the
\* summary only through the model's reply.
researchApp(prompt, keywordReply, analysisReply) ==
    LET k == extractKeywords(prompt, keywordReply)
    IN IF k.threw THEN k ELSE analyzeResults(analysisReply)

\* outcomes of the text-generation calls made by researchApp
researchGenLog(keywordReply, analysisReply) ==
    IF keywordReply.kind = "fail" THEN <<"fail">>
    ELSE <<"ok", IF analysisReply.kind = "fail" THEN "fail" ELSE "ok">>

\* outcomes of the text-generation calls made by planApp
planGenLog(clientOk, analysisReply, planReply) ==
    IF ~clientOk THEN <<"fail">>
    ELSE IF analysisReply.kind = "fail" THEN <<"fail">>
    ELSE <<"ok", IF planReply.kind = "fail" THEN "fail" ELSE "ok">>

\* outcomes of the text-generation calls made by generateCode
codeGenLog(clientOk, reply) ==
    IF ~clientOk THEN <<"fail">>
    ELSE <<IF reply.kind = "fail" THEN "fail" ELSE "ok">>

\* afterStage with a stage that threw called again instead of abandoned
afterStage_retry(stage, threw) ==
    IF threw THEN stage
    ELSE CASE stage = "research" -> "plan"
           [] stage = "plan" -> "code"
           [] stage = "code" -> "optimize"
           [] stage = "optimize" -> "deploy"
           [] stage = "deploy" -> "done"

\* The try block of generateApp: the statement after a stage call that
\* returned is the next stage; a stage call that threw leaves the block for
\* the catch clause, after which generateApp returns.
afterStage(stage, threw) ==
    IF threw THEN "done"
    ELSE CASE stage = "research" -> "plan"
           [] stage = "plan" -> "code"
           [] stage = "code" -> "optimize"
           [] stage = "optimize" -> "deploy"
           [] stage = "deploy" -> "done"

\* catchError without the log line
catchError_silent(res, msg) ==
    [res EXCEPT !.errors = Append(@, msg)]

\* the catch clause of generateApp
catchError(res, msg) ==
    [res EXCEPT !.errors = Append(@, msg), !.logs = Append(@, "Error")]

\* recordDeployment with a failed deployment failing the run
recordDeployment_fatal(res, dep) ==
    IF dep.success /\ dep.url # Null
    THEN [res EXCEPT !.deploymentUrl = dep.url, !.success = TRUE,
                     !.logs = Append(@, "App deployed successfully")]
    ELSE [res EXCEPT !.errors = Append(@, "Deployment failed"),
                     !.logs = Append(@, "Deployment failed")]

\* lines 111-119 of generateApp: the outcome of the deployment is recorded
\* and the run is marked successful either way
recordDeployment(res, dep) ==
    LET r == IF dep.success /\ dep.url # Null
             THEN [res EXCEPT !.deploymentUrl = dep.url,
                              !.logs = Append(@, "App deployed successfully")]
             ELSE [res EXCEPT !.errors = Append(@, "Deployment failed"),
                              !.logs = Append(@, "Deployment failed")]
    IN [r EXCEPT !.success = TRUE]

emptyResult ==
    [ success |-> FALSE, deploymentUrl |-> Null, code |-> Null, research |-> Null,
      optimization |-> Null, errors |-> <<>>, logs |-> <<>> ]

OrchestratorIdle ==
    /\ pc = "idle"
    /\ request = [prompt |-> <<>>, platform |-> "web"]
    /\ calls = <<>>
    /\ result = emptyResult
    /\ plan = Null
    /\ deployment = Null
    /\ genLog = <<>>
    /\ vercelToken = FALSE

\* generateApp(request) is called
GenerateApp ==
    /\ pc \in {"idle", "done"}
    /\ \E r \in Requests : request' = r
    /\ pc' = "research"
    /\ calls' = <<>>
    /\ result' = emptyResult
    /\ plan' = Null
    /\ deployment' = Null
    /\ genLog' = <<>>
    /\ UNCHANGED vercelToken

\* Step 1: researchApp(request.prompt)
ResearchStage ==
    /\ pc = "research"
    /\ calls' = Append(calls, "research")
    /\ \E kw \in KeywordReplies, an \in AnalysisReplies :
         LET r == researchApp(request.prompt, kw, an)
         IN /\ genLog' = genLog \o researchGenLog(kw, an)
            /\ pc' = afterStage("research", r.threw)
            /\ result' = IF r.threw THEN catchError(result, r.error)
                         ELSE [result EXCEPT !.research = Some(r.value),
                                             !.logs = Append(@, "Research completed")]
    /\ UNCHANGED <<request, plan, deployment, vercelToken>>

\* Step 2: planApp(request, research)
PlanStage ==
    /\ pc = "plan"
    /\ calls' = Append(calls, "plan")
    /\ \E ok \in BOOLEAN, an \in PlanAnalysisReplies, pr \in PlanReplies :
         /\ genLog' = genLog \o planGenLog(ok, an, pr)
         /\ plan' = Some(planApp(request, ok, an, pr))
    /\ pc' = afterStage("plan", FALSE)
    /\ result' = [result EXCEPT !.logs = Append(@, "App structure planned")]
    /\ UNCHANGED <<request, deployment, vercelToken>>

\* Step 3: generateCode(plan, request)
CodeStage ==
    /\ pc = "code"
    /\ calls' = Append(calls, "code")
    /\ \E ok \in BOOLEAN, reply \in CodeReplies :
         /\ genLog' = genLog \o codeGenLog(ok, reply)
         /\ result' = [result EXCEPT !.code = Some(generateCode(plan[1], request, ok, reply)),
                                     !.logs = Append(@, "Code generated")]
    /\ pc' = afterStage("code", FALSE)
    /\ UNCHANGED <<request, plan, deployment, vercelToken>>

\* Step 4: optimizeCode(code); result.code is the object that was passed in
OptimizeStage ==
    /\ pc = "optimize"
    /\ calls' = Append(calls, "optimize")
    /\ LET o == optimizeCode(result.code[1])
       IN result' = [result EXCEPT !.code = Some(o.argument),
                                   !.optimization = Some(o.result),
                                   !.logs = Append(@, "Code optimized")]
    /\ pc' = afterStage("optimize", FALSE)
    /\ UNCHANGED <<request, plan, deployment, genLog, vercelToken>>

\* deployConfig with the platform taken from the request
deployConfig_requested(req) ==
    [platform |-> req.platform, environment |-> "production"]

\* the configuration literal of Step 5 (lines 106-109)
deployConfig(req) ==
    [platform |-> "vercel", environment |-> "production"]

\* Step 5: deployApp(optimization.optimizedCode, {platform: 'vercel', ...})
DeployStage ==
    /\ pc = "deploy"
    /\ calls' = Append(calls, "deploy")
    /\ \E outcome \in DeployOutcomes :
         LET dep == deployApp(result.optimization[1].optimizedCode,
                              deployConfig(request).platform, vercelToken, outcome)
         IN /\ deployment' = Some(dep)
            /\ result' = recordDeployment(result, dep)
    /\ pc' = afterStage("deploy", FALSE)
    /\ UNCHANGED <<request, plan, genLog, vercelToken>>

OrchestratorNext ==
    \/ GenerateApp
    \/ ResearchStage
    \/ PlanStage
    \/ CodeStage
    \/ OptimizeStage
    \/ DeployStage

-----------------------------------------------------------------------------
(* CodeAgent: generateCode(plan, request) and optimizeCode(code, feedback), *)
(* one step per external call                                               *)

frontendFallback ==
    [ components |-> [App |-> "// Generated component"],
      pages |-> [Home |-> "// Generated page"],
      styles |-> [globals |-> "/* Generated styles */"],
      config |-> [package |-> "{}"] ]

backendFallback ==
    [ routes |-> [index |-> "// Generated route"],
      models |-> [User |-> "// Generated model"],
      middleware |-> [auth |-> "// Generated middleware"],
      config |-> [package |-> "{}"] ]

databaseFallback ==
    [ schema |-> "// Generated schema",
      migrations |-> <<"// Generated migration">>,
      seeds |-> <<"// Generated seed">> ]

deploymentFallback ==
    [ dockerfile |-> "# Generated Dockerfile",
      dockerCompose |-> "# Generated docker-compose.yml",
      vercelConfig |-> <<>> ]

\* CodeAgent.parseCodeResponse: the parsed payload, or the fallback structure
\* of the given type; Null is `undefined`, the value of a function that ends
\* without a return statement.
parseCodeResponse(reply, type) ==
    IF reply.kind = "json" THEN Some(reply.value)
    ELSE CASE type = "frontend" -> Some(frontendFallback)
           [] type = "backend" -> Some(backendFallback)
           [] type = "database" -> Some(databaseFallback)
           [] type = "deployment" -> Some(deploymentFallback)
           [] OTHER -> Null

\* bundles handed to optimizeCode(code, feedback): results of generateCode(plan)
GeneratedBundles ==
    { [ frontend |-> frontendFallback, backend |-> backendFallback,
        database |-> databaseFallback, deployment |-> deploymentFallback ],
      [ frontend |-> [frontendFallback EXCEPT !.components = [App |-> "function App() {}"]],
        backend |-> backendFallback,
        database |-> databaseFallback, deployment |-> deploymentFallback ] }

optimizedBundle ==
    [ frontend |-> [frontendFallback EXCEPT !.components = [App |-> "const App = memo()"]],
      backend |-> backendFallback,
      database |-> databaseFallback, deployment |-> deploymentFallback ]

OptimizationReplies == { FailReply, TextReply, BadJsonReply, JsonReply(optimizedBundle) }

\* CodeAgent.optimizeCode(code, feedback): the generate call is awaited with
\* no try block around it, and the reply is parsed as type 'optimization'.
optimizeCodeWithFeedback(code, reply) ==
    IF reply.kind = "fail" THEN Threw(LLMError)
    ELSE Returned(parseCodeResponse(reply, "optimization"))

\* generateCodeNext with a step that rejected attempted again
generateCodeNext_retry(step, ok) ==
    IF ~ok THEN step
    ELSE CASE step = "getModelClient" -> "generateText"
           [] step = "generateText" -> "return"

\* Control flow of the try block of generateCode (lines 52-119): a step that
\* rejects transfers to the catch block, which returns the fallback bundle.
generateCodeNext(step, ok) ==
    IF ~ok THEN "catch"
    ELSE CASE step = "getModelClient" -> "generateText"
           [] step = "generateText" -> "return"

\* requests handed to generateCode
CodeRequests == {r \in Requests : r.prompt \in {<<W_app>>, <<W_Todo, W_app>>}}

CodeIdle ==
    /\ cpc = "idle"
    /\ cop = "none"
    /\ creq = [prompt |-> <<>>, platform |-> "web"]
    /\ cplan = Null
    /\ cin = Null
    /\ creply = Null
    /\ cfailed = FALSE
    /\ cafter = 0
    /\ cout = Null
    /\ cseen = [r \in CodeRequests |-> [bundles |-> {}, n |-> 0]]

\* the failed generateCode call on creq returns bundle b
RememberBundle(b) ==
    cseen' = [cseen EXCEPT ![creq] =
                 [bundles |-> @.bundles \cup {b}, n |-> Min(@.n + 1, MaxRepeats)]]

\* one external call of generateCode has finished; ok is FALSE when it rejected
CodeStep(step, ok, reply) ==
    LET next == generateCodeNext(step, ok)
        failed == cfailed \/ ~ok
    IN /\ cafter' = IF cfailed THEN cafter + 1 ELSE cafter
       /\ cfailed' = failed
       /\ creply' = reply
       /\ CASE next = "catch" ->
                 /\ cpc' = "done"
                 /\ cout' = Some(generateFallbackCode(creq))
                 /\ RememberBundle(generateFallbackCode(creq))
            [] next = "return" ->
                 /\ cpc' = "done"
                 /\ cout' = Some(templateBundle(creq))
                 /\ IF failed THEN RememberBundle(templateBundle(creq))
                    ELSE UNCHANGED cseen
            [] OTHER ->
                 /\ cpc' = next
                 /\ UNCHANGED <<cout, cseen>>
       /\ UNCHANGED <<cop, creq, cplan, cin>>

\* generateCode(plan, request) is called
GenerateCode ==
    /\ cpc \in {"idle", "done", "threw"}
    /\ \E r \in CodeRequests : creq' = r
    /\ \E p \in InputPlans : cplan' = Some(p)
    /\ cop' = "generate"
    /\ cpc' = "getModelClient"
    /\ cin' = Null
    /\ creply' = Null
    /\ cfailed' = FALSE
    /\ cafter' = 0
    /\ cout' = Null
    /\ UNCHANGED cseen

CodeGetModelClient ==
    /\ cop = "generate" /\ cpc = "getModelClient"
    /\ \E ok \in BOOLEAN : CodeStep("getModelClient", ok, creply)

CodeGenerateText ==
    /\ cop = "generate" /\ cpc = "generateText"
    /\ \E reply \in CodeReplies : CodeStep("generateText", reply.kind # "fail", Some(reply))

\* optimizeCode(code, feedback) is called
OptimizeWithFeedback ==
    /\ cpc \in {"idle", "done", "threw"}
    /\ \E b \in GeneratedBundles : cin' = Some(b)
    /\ cop' = "optimize"
    /\ cpc' = "generate"
    /\ cplan' = Null
    /\ creply' = Null
    /\ cfailed' = FALSE
    /\ cafter' = 0
    /\ cout' = Null
    /\ UNCHANGED <<creq, cseen>>

\* optimizeCode: the generate call and parseCodeResponse
OptimizeGenerate ==
    /\ cop = "optimize" /\ cpc = "generate"
    /\ \E reply \in OptimizationReplies :
         LET o == optimizeCodeWithFeedback(cin[1], reply)
         IN /\ creply' = Some(reply)
            /\ cfailed' = o.threw
            /\ cpc' = IF o.threw THEN "threw" ELSE "done"
            /\ cout' = IF o.threw THEN cout ELSE o.value
    /\ UNCHANGED <<cop, creq, cplan, cin, cafter, cseen>>

CodeNext ==
    \/ GenerateCode
    \/ CodeGetModelClient
    \/ CodeGenerateText
    \/ OptimizeWithFeedback
    \/ OptimizeGenerate

-----------------------------------------------------------------------------
(* OptimizerAgent.optimizeCode, one step per statement group, and the       *)
(* rewrite passes applied to their own output                               *)

plainComponent(name) ==
    Text("import React from 'react';\n\nfunction " \o name \o "() {\n}\n\nexport default "
         \o name \o ";", 100)

imageComponent(name) ==
    Text("import React from 'react';\nfunction " \o name
         \o "() {\n  return <img src=\"a.png\">;\n}\nexport default " \o name \o ";", 0)

penalisedComponent(name) ==
    Text("function " \o name
         \o "(x: any) {\n  useEffect(() => {\n    console.log(x);\n  });\n}", 600)

statefulComponent(name) ==
    Text("import React, { useState } from 'react';\nfunction " \o name
         \o "(props) {\n  const [n, setN] = useState(0);\n}\nexport default " \o name \o ";",
         900)

memoComponent(name) ==
    Text("import React from 'react';\nconst " \o name
         \o " = React.memo(() => null);\nexport default " \o name \o ";", 2000)

starComponent(name) ==
    Text("import { Card, * as U } from './ui';\nfunction " \o name
         \o "() {\n}\nexport default " \o name \o ";", 0)

ComponentSources(name) ==
    { plainComponent(name), imageComponent(name), penalisedComponent(name),
      statefulComponent(name), memoComponent(name), starComponent(name) }

echoRoute == Text("router.post('/echo', (req, res) => {\n  res.json(req.body);\n});", 0)

serverRoute ==
    Text("const app = express();\napp.use(express.json());\n"
         \o "app.get('/', (req, res) => {\n  res.json({});\n});", 0)

unsafeRoute ==
    Text("router.get('/run', (req, res) => {\n  el.innerHTML = eval(req.query.q);\n});", 0)

RouteSources == { echoRoute, serverRoute, unsafeRoute }

Bundle(components, pages, routes) ==
    [ frontend |-> [components |-> components, pages |-> pages],
      backend |-> [routes |-> routes] ]

SmallBundles ==
    { Bundle("App.tsx" :> c, "About.tsx" :> generateAboutPage, "api/users.ts" :> r) :
        c \in ComponentSources("App"), r \in RouteSources }

\* bundles of n files, each of which incurs every penalty it can
ManyFileBundles ==
    { Bundle([f \in {numberedFile(i, ".tsx") : i \in 1..n} |->
                 penalisedComponent(componentName(f))],
             "About.tsx" :> generateAboutPage,
             [f \in {numberedFile(i, ".ts") : i \in 1..n} |-> unsafeRoute]) :
        n \in 1..MaxFiles }

\* bundles with a section missing
MalformedBundles ==
    { [backend |-> [routes |-> ("api/users.ts" :> echoRoute)]],
      [frontend |-> [components |-> ("App.tsx" :> plainComponent("App")),
                     pages |-> ("About.tsx" :> generateAboutPage)]],
      [frontend |-> [components |-> ("App.tsx" :> plainComponent("App"))],
       backend |-> [routes |-> ("api/users.ts" :> echoRoute)]],
      [frontend |-> [components |-> ("App.tsx" :> plainComponent("App")),
                     pages |-> ("About.tsx" :> generateAboutPage)],
       backend |-> [models |-> ("User.ts" :> echoRoute)]] }

WellFormedBundles ==
    SmallBundles \cup ManyFileBundles
    \cup {templateBundle([prompt |-> <<W_todo, W_app>>, platform |-> "web"])}

OptimizerBundles == WellFormedBundles \cup MalformedBundles

\* optimizeNext with the exception of a statement leaving optimizeCode
optimizeNext_uncaught(stage, threw) ==
    IF threw THEN "threw"
    ELSE CASE stage = "lint" -> "test"
           [] stage = "test" -> "performance"
           [] stage = "performance" -> "security"
           [] stage = "security" -> "maintainability"
           [] stage = "maintainability" -> "scores"
           [] stage = "scores" -> "done"

\* Control flow of optimizeCode (lines 54-87): the statement groups of the
\* try block in order; an exception transfers to the catch clause.
optimizeNext(stage, threw) ==
    IF threw THEN "catch"
    ELSE CASE stage = "lint" -> "test"
           [] stage = "test" -> "performance"
           [] stage = "performance" -> "security"
           [] stage = "security" -> "maintainability"
           [] stage = "maintainability" -> "scores"
           [] stage = "scores" -> "done"

OptimizerIdle ==
    /\ opc = "idle"
    /\ oarg = Null
    /\ obefore = Null
    /\ oresult = Null

\* optimizeCode(code) is called
OptimizeCode ==
    /\ opc \in {"idle", "done", "threw"}
    /\ \E code \in OptimizerBundles :
         /\ oarg' = Some(code)
         /\ obefore' = Some(code)
         /\ oresult' = Some(initialResult(code))
    /\ opc' = "lint"

\* one statement group of the try block runs; the texts a pass rewrites are
\* assigned into the maps of the bundle that was passed in
OptimizeStatement(stage) ==
    /\ opc = stage
    /\ LET threw == stageThrows(stage, oarg[1])
       IN /\ opc' = optimizeNext(stage, threw)
          /\ IF threw THEN UNCHANGED <<oarg, oresult>>
             ELSE LET r == optimizeStage(stage, oresult[1])
                  IN oresult' = Some(r) /\ oarg' = Some(r.optimizedCode)
    /\ UNCHANGED obefore

RunLinting == OptimizeStatement("lint")
RunTests == OptimizeStatement("test")
OptimizePerformance == OptimizeStatement("performance")
OptimizeSecurity == OptimizeStatement("security")
OptimizeMaintainability == OptimizeStatement("maintainability")
CalculateScores == OptimizeStatement("scores")

\* the catch clause, then the return
OptimizeCatch ==
    /\ opc = "catch"
    /\ oresult' = Some(optimizeCatch(oresult[1], TypeErrorMessage))
    /\ opc' = "done"
    /\ UNCHANGED <<oarg, obefore>>

OptimizerNext ==
    \/ OptimizeCode
    \/ RunLinting
    \/ RunTests
    \/ OptimizePerformance
    \/ OptimizeSecurity
    \/ OptimizeMaintainability
    \/ CalculateScores
    \/ OptimizeCatch

MaxPasses == 2

PassKinds == {"performance", "security", "maintainability"}

applyPass(kind, code) ==
    CASE kind = "performance" -> optimizePerformance(code)
      [] kind = "security" -> optimizeSecurity(code)
      [] kind = "maintainability" -> optimizeMaintainability(code)

PassIdle ==
    /\ wkind = "none"
    /\ wbundle = Null
    /\ wprev = Null
    /\ wpasses = 0

\* a bundle and a pass are chosen
PassStart ==
    /\ \E kind \in PassKinds : wkind' = kind
    /\ \E code \in WellFormedBundles : wbundle' = Some(code)
    /\ wprev' = Null
    /\ wpasses' = 0

\* the pass is applied to the bundle, that is to its own output from the
\* second time on
PassApply ==
    /\ wkind \in PassKinds
    /\ wpasses < MaxPasses
    /\ wprev' = wbundle
    /\ wbundle' = Some(applyPass(wkind, wbundle[1]))
    /\ wpasses' = wpasses + 1
    /\ UNCHANGED wkind

PassNext ==
    \/ PassStart
    \/ PassApply

-----------------------------------------------------------------------------
(* DeployAgent: deployApp, checkDeploymentStatus, rollbackDeployment, one  *)
(* step per statement group. `remote` is what the providers hold: for each *)
(* provider its deployments, newest first, as the list requests return     *)
(* them. `dnet` is the trace of the requests the running call has sent.    *)

MaxDeployments == 2

DeployIds == {"d" \o ToString(i) : i \in 1..MaxDeployments}

\* the platform argument: the four cases of the switch and one more
DeployPlatforms == Providers \cup {"heroku"}

\* vercelToken and netlifyToken come from the constructor, RAILWAY_TOKEN and
\* the AWS keys from process.env: none, the constructor's two, all of them
Credentials == {{}, {"vercel", "netlify"}, Providers}

DeployBundles ==
    { templateBundle([prompt |-> <<W_app>>, platform |-> "web"]),
      [backend |-> [routes |-> ("api/users.ts" :> generateUsersAPI)]] }

\* outcome of one request: answered, refused by the provider (a response
\* with an error status), or not delivered
NetOutcomes == {"ok", "provider error", "transport error"}

netMessage(outcome) ==
    IF outcome = "provider error" THEN "Request failed with status code 500"
    ELSE "connect ECONNREFUSED"

NotFoundMessage == "Request failed with status code 404"
unsupportedMessage(platform) == "Unsupported platform: " \o platform

\* the catch clause inside deployToVercel / Netlify / Railway / AWS
deployFailed(platform, msg) == providerName(platform) \o " deployment failed: " \o msg

\* files are written to a temporary directory first, except for AWS
writesFiles(platform) == platform # "aws"

\* the requests a deployment sends, in order
deployRequests(platform) ==
    CASE platform = "vercel" -> <<"POST https://api.vercel.com/v13/deployments">>
      [] platform = "netlify" -> <<"POST https://api.netlify.com/api/v1/sites">>
      [] platform = "railway" ->
           <<"POST https://backboard.railway.app/graphql/v1 projectCreate",
             "POST https://backboard.railway.app/graphql/v1 deploymentCreate">>
      [] platform = "aws" ->
           <<"s3.createBucket", "s3.upload", "s3.putBucketWebsite", "s3.putBucketPolicy">>

\* the request of deployRequests that creates the deployment at the provider
creatingRequest(platform) == IF platform = "railway" THEN 2 ELSE 1

deploymentUrl(platform, id) ==
    CASE platform = "vercel" -> "https://" \o id \o ".vercel.app"
      [] platform = "netlify" -> "https://" \o id \o ".netlify.app"
      [] platform = "railway" -> "https://" \o id \o ".railway.app"
      [] platform = "aws" -> "https://" \o id \o ".s3-website-us-east-1.amazonaws.com"

deployed(rem) ==
    Len(rem["vercel"]) + Len(rem["netlify"]) + Len(rem["railway"]) + Len(rem["aws"])

remoteIds(rem, platform) == {rem[platform][i].id : i \in 1..Len(rem[platform])}

remoteState(rem, platform, id) ==
    LET i == CHOOSE i \in 1..Len(rem[platform]) : rem[platform][i].id = id
    IN rem[platform][i].state

\* the state of a deployment in the provider's words (readyState of Vercel,
\* state of Netlify, status of Railway)
providerState(platform, state) ==
    CASE platform = "vercel" ->
           (CASE state = "ready" -> "READY" [] state = "error" -> "ERROR"
              [] OTHER -> "BUILDING")
      [] platform = "netlify" -> state
      [] platform = "railway" ->
           (CASE state = "ready" -> "SUCCESS" [] state = "error" -> "FAILED"
              [] OTHER -> "BUILDING")

\* checkVercelStatus / checkNetlifyStatus / checkRailwayStatus: the status
\* computed from the provider's answer
statusOf(platform, answer) ==
    CASE platform = "vercel" ->
           IF answer = "READY" THEN "ready" ELSE IF answer = "ERROR" THEN "error"
           ELSE "building"
      [] platform = "netlify" ->
           IF answer = "ready" THEN "ready" ELSE IF answer = "error" THEN "error"
           ELSE "building"
      [] platform = "railway" ->
           IF answer = "SUCCESS" THEN "ready" ELSE IF answer = "FAILED" THEN "error"
           ELSE "building"

StatusReport(status, url, logs) == [status |-> status, url |-> url, logs |-> logs]

\* the catch clause of checkDeploymentStatus
statusCatch(msg) == StatusReport("error", Null, <<"Status check failed: " \o msg>>)

checkAWSStatus(bucketName) ==
    StatusReport("ready", Some("https://" \o bucketName \o ".s3-website-us-east-1.amazonaws.com"),
                 <<"AWS S3 deployment completed successfully">>)

statusRequest(platform, id) ==
    CASE platform = "vercel" -> "GET https://api.vercel.com/v13/deployments/" \o id
      [] platform = "netlify" -> "GET https://api.netlify.com/api/v1/sites/" \o id
      [] platform = "railway" -> "POST https://backboard.railway.app/graphql/v1 deployment " \o id

\* the number of requests of a rollback that runs to its end
rollbackRequests(platform) == IF platform = "vercel" THEN 3 ELSE 2

\* the request of a rollback that lists the deployments
listingRequest(platform) == IF platform = "vercel" THEN 2 ELSE 1

\* the deployments a listing returns: Vercel and Railway ask for two
listing(rem, platform) ==
    IF platform \in {"vercel", "railway"} THEN Take(rem[platform], 2) ELSE rem[platform]

rollbackRequest(platform, step, id, rem) ==
    CASE platform = "vercel" /\ step = 1 -> "GET https://api.vercel.com/v13/deployments/" \o id
      [] platform = "vercel" /\ step = 2 ->
           "GET https://api.vercel.com/v6/deployments?projectId&limit=2"
      [] platform = "vercel" /\ step = 3 ->
           "POST https://api.vercel.com/v13/deployments/" \o rem[platform][2].id \o "/promote"
      [] platform = "netlify" /\ step = 1 ->
           "GET https://api.netlify.com/api/v1/sites/" \o id \o "/deploys"
      [] platform = "netlify" /\ step = 2 ->
           "POST https://api.netlify.com/api/v1/deploys/" \o rem[platform][2].id \o "/restore"
      [] platform = "railway" /\ step = 1 ->
           "POST https://backboard.railway.app/graphql/v1 deployments(limit: 2)"
      [] platform = "railway" /\ step = 2 ->
           "POST https://backboard.railway.app/graphql/v1 deploymentRollback "
             \o rem[platform][2].id

\* deployApp's catch clause
deployCatch(res, msg) == [res EXCEPT !.errors = Append(@, msg)]

\* deployAppNext with the exception leaving deployApp
deployAppNext_uncaught(step, threw) ==
    IF threw THEN "threw"
    ELSE CASE step = "prepare" -> "dispatch"
           [] step = "dispatch" -> "credential"
           [] step = "credential" -> "files"
           [] step = "files" -> "request"
           [] step = "request" -> "done"

\* where deployApp goes after a step: an exception of any step is caught by
\* the one catch clause, after which the result is returned
deployAppNext(step, threw) ==
    IF threw THEN "done"
    ELSE CASE step = "prepare" -> "dispatch"
           [] step = "dispatch" -> "credential"
           [] step = "credential" -> "files"
           [] step = "files" -> "request"
           [] step = "request" -> "done"

AgentIdle ==
    /\ dpc = "idle"
    /\ dop = "none"
    /\ dplatform = "none"
    /\ did = "none"
    /\ dcode = Null
    /\ dstep = 0
    /\ dnet = <<>>
    /\ dout = Null
    /\ dwatch = Null

\* new DeployAgent() with nothing set in the environment, no deployment made
DeployIdle ==
    /\ AgentIdle
    /\ dcreds = {}
    /\ remote = [p \in Providers |-> <<>>]

DeployReady == dpc \in {"idle", "done", "threw"}

\* deployApp(code, config) is called
DeployApp ==
    /\ DeployReady
    /\ deployed(remote) < MaxDeployments
    /\ \E code \in DeployBundles : dcode' = Some(code)
    /\ \E platform \in DeployPlatforms : dplatform' = platform
    /\ dop' = "deploy"
    /\ did' = "none"
    /\ dstep' = 0
    /\ dnet' = <<>>
    /\ dout' = DeploymentResult(FALSE, Null, <<>>, <<>>)
    /\ dpc' = "prepare"
    /\ UNCHANGED <<dcreds, remote, dwatch>>

\* prepareDeploymentFiles reads the four maps of the bundle
PrepareDeploymentFiles ==
    /\ dop = "deploy" /\ dpc = "prepare"
    /\ LET threw == ~wellFormed(dcode[1])
       IN /\ dpc' = deployAppNext("prepare", threw)
          /\ dout' = IF threw THEN deployCatch(dout, TypeErrorMessage) ELSE dout
    /\ UNCHANGED <<dop, dplatform, did, dcode, dstep, dnet, dcreds, remote, dwatch>>

\* the switch on config.platform
DeployDispatch ==
    /\ dop = "deploy" /\ dpc = "dispatch"
    /\ LET threw == dplatform \notin Providers
       IN /\ dpc' = deployAppNext("dispatch", threw)
          /\ dout' = IF threw THEN deployCatch(dout, unsupportedMessage(dplatform)) ELSE dout
    /\ UNCHANGED <<dop, dplatform, did, dcode, dstep, dnet, dcreds, remote, dwatch>>

\* the credential test at the head of deployTo...
DeployCredential ==
    /\ dop = "deploy" /\ dpc = "credential"
    /\ LET threw == dplatform \notin dcreds
       IN /\ dpc' = IF ~threw /\ ~writesFiles(dplatform) THEN "request"
                    ELSE deployAppNext("credential", threw)
          /\ dout' = IF threw THEN deployCatch(dout, credentialMessage(dplatform, TRUE))
                     ELSE dout
    /\ dstep' = 1
    /\ UNCHANGED <<dop, dplatform, did, dcode, dnet, dcreds, remote, dwatch>>

\* the files are written to the temporary directory
DeployWriteFiles ==
    /\ dop = "deploy" /\ dpc = "files"
    /\ \E written \in BOOLEAN :
         /\ dpc' = deployAppNext("files", ~written)
         /\ dout' = IF written THEN dout
                    ELSE deployCatch(dout, deployFailed(dplatform, "EACCES: permission denied"))
    /\ UNCHANGED <<dop, dplatform, did, dcode, dstep, dnet, dcreds, remote, dwatch>>

\* the next request of the deployment is sent; after the last one the url
\* is assigned, success set and the log line pushed
DeployRequest ==
    /\ dop = "deploy" /\ dpc = "request"
    /\ dnet' = Append(dnet, deployRequests(dplatform)[dstep])
    /\ \E outcome \in NetOutcomes :
         LET id == IF dstep = creatingRequest(dplatform)
                   THEN "d" \o ToString(deployed(remote) + 1) ELSE did
             last == dstep = Len(deployRequests(dplatform))
         IN IF outcome # "ok"
            THEN /\ dout' = deployCatch(dout, deployFailed(dplatform, netMessage(outcome)))
                 /\ dpc' = deployAppNext("request", TRUE)
                 /\ UNCHANGED <<did, dstep, remote>>
            ELSE /\ did' = id
                 /\ remote' = IF dstep = creatingRequest(dplatform)
                              THEN [remote EXCEPT ![dplatform] =
                                      <<[id |-> id, state |-> "building"]>> \o @]
                              ELSE remote
                 /\ IF last
                    THEN /\ dout' = [dout EXCEPT
                                       !.url = Some(deploymentUrl(dplatform, id)),
                                       !.success = TRUE,
                                       !.logs = Append(@, "Successfully deployed to " \o dplatform)]
                         /\ dpc' = deployAppNext("request", FALSE)
                         /\ UNCHANGED dstep
                    ELSE /\ dstep' = dstep + 1
                         /\ UNCHANGED <<dout, dpc>>
    /\ UNCHANGED <<dop, dplatform, dcode, dcreds, dwatch>>

\* the provider finishes a build
ProviderBuild ==
    /\ \E p \in Providers : \E i \in 1..Len(remote[p]) :
         /\ remote[p][i].state = "building"
         /\ \E s \in {"ready", "error"} :
              remote' = [remote EXCEPT ![p][i].state = s]
    /\ UNCHANGED <<dpc, dop, dplatform, did, dcode, dstep, dnet, dout, dcreds, dwatch>>

\* the value checkDeploymentStatus returns is recorded; a deployment it has
\* reported ready or error for may be remembered in dwatch
StatusReturn(report) ==
    /\ dout' = report
    /\ dpc' = "done"
    /\ IF report.status \in {"ready", "error"}
       THEN \E keep \in BOOLEAN :
              dwatch' = IF keep THEN dwatch ELSE Some([id |-> did, platform |-> dplatform])
       ELSE UNCHANGED dwatch

\* checkDeploymentStatus(deploymentId, platform) is called
CheckDeploymentStatus ==
    /\ DeployReady
    /\ \E id \in DeployIds : did' = id
    /\ \E platform \in DeployPlatforms : dplatform' = platform
    /\ dop' = "status"
    /\ dcode' = Null
    /\ dstep' = 0
    /\ dnet' = <<>>
    /\ dout' = Null
    /\ dpc' = "dispatch"
    /\ UNCHANGED <<dcreds, remote, dwatch>>

\* the switch on platform; checkAWSStatus answers at once
StatusDispatch ==
    /\ dop = "status" /\ dpc = "dispatch"
    /\ IF dplatform \notin Providers THEN StatusReturn(statusCatch(unsupportedMessage(dplatform)))
       ELSE IF dplatform = "aws" THEN StatusReturn(checkAWSStatus(did))
       ELSE dpc' = "credential" /\ UNCHANGED <<dout, dwatch>>
    /\ UNCHANGED <<dop, dplatform, did, dcode, dstep, dnet, dcreds, remote>>

\* the credential test at the head of check...Status
StatusCredential ==
    /\ dop = "status" /\ dpc = "credential"
    /\ IF dplatform \notin dcreds
       THEN StatusReturn(statusCatch(credentialMessage(dplatform, FALSE)))
       ELSE dpc' = "request" /\ UNCHANGED <<dout, dwatch>>
    /\ UNCHANGED <<dop, dplatform, did, dcode, dstep, dnet, dcreds, remote>>

\* the status request and the status computed from its answer
StatusRequest ==
    /\ dop = "status" /\ dpc = "request"
    /\ dnet' = Append(dnet, statusRequest(dplatform, did))
    /\ \E outcome \in NetOutcomes :
         IF outcome # "ok" THEN StatusReturn(statusCatch(netMessage(outcome)))
         ELSE IF did \notin remoteIds(remote, dplatform)
         THEN StatusReturn(statusCatch(NotFoundMessage))
         ELSE StatusReturn(StatusReport(
                statusOf(dplatform, providerState(dplatform, remoteState(remote, dplatform, did))),
                Some(deploymentUrl(dplatform, did)), <<"No logs available">>))
    /\ UNCHANGED <<dop, dplatform, did, dcode, dstep, dcreds, remote>>

\* rollbackDeployment(deploymentId, platform) is called
RollbackDeployment ==
    /\ DeployReady
    /\ \E id \in DeployIds : did' = id
    /\ \E platform \in DeployPlatforms : dplatform' = platform
    /\ dop' = "rollback"
    /\ dcode' = Null
    /\ dstep' = 0
    /\ dnet' = <<>>
    /\ dout' = Null
    /\ dpc' = "dispatch"
    /\ UNCHANGED <<dcreds, remote, dwatch>>

\* the switch on platform; rollbackAWS returns true at once; the catch
\* clause of rollbackDeployment returns false
RollbackDispatch ==
    /\ dop = "rollback" /\ dpc = "dispatch"
    /\ IF dplatform \notin Providers THEN dout' = FALSE /\ dpc' = "done"
       ELSE IF dplatform = "aws" THEN dout' = TRUE /\ dpc' = "done"
       ELSE dpc' = "credential" /\ UNCHANGED dout
    /\ UNCHANGED <<dop, dplatform, did, dcode, dstep, dnet, dcreds, remote, dwatch>>

\* the credential test at the head of rollback...
RollbackCredential ==
    /\ dop = "rollback" /\ dpc = "credential"
    /\ IF dplatform \notin dcreds
       THEN dout' = FALSE /\ dpc' = "done" /\ UNCHANGED dstep
       ELSE dpc' = "request" /\ dstep' = 1 /\ UNCHANGED dout
    /\ UNCHANGED <<dop, dplatform, did, dcode, dnet, dcreds, remote, dwatch>>

\* the next request of the rollback is sent: the deployment is looked up
\* (Vercel), the deployments are listed and counted, the one before the
\* newest is promoted
RollbackRequest ==
    /\ dop = "rollback" /\ dpc = "request"
    /\ dnet' = Append(dnet, rollbackRequest(dplatform, dstep, did, remote))
    /\ \E outcome \in NetOutcomes :
         LET threw == \/ outcome # "ok"
                      \/ dplatform = "vercel" /\ dstep = 1
                           /\ did \notin remoteIds(remote, dplatform)
                      \/ dstep = listingRequest(dplatform)
                           /\ Len(listing(remote, dplatform)) < 2
         IN IF threw THEN dout' = FALSE /\ dpc' = "done" /\ UNCHANGED dstep
            ELSE IF dstep = rollbackRequests(dplatform)
            THEN dout' = TRUE /\ dpc' = "done" /\ UNCHANGED dstep
            ELSE dstep' = dstep + 1 /\ UNCHANGED <<dout, dpc>>
    /\ UNCHANGED <<dop, dplatform, did, dcode, dcreds, remote, dwatch>>

DeployNext ==
    \/ DeployApp
    \/ PrepareDeploymentFiles
    \/ DeployDispatch
    \/ DeployCredential
    \/ DeployWriteFiles
    \/ DeployRequest
    \/ RollbackDeployment
    \/ RollbackDispatch
    \/ RollbackCredential
    \/ RollbackRequest

StatusNext ==
    \/ ProviderBuild
    \/ CheckDeploymentStatus
    \/ StatusDispatch
    \/ StatusCredential
    \/ StatusRequest
    \/ RollbackDeployment
    \/ RollbackDispatch
    \/ RollbackCredential
    \/ RollbackRequest

-----------------------------------------------------------------------------
(* Two generateApp runs on one VoxlorOrchestrator. The runs share the      *)
(* agents the constructor made, and with the research agent its LLaMA3LLM, *)
(* whose pipeline field is loaded by the first generate that finds it      *)
(* unset. A run moves at its awaits, so the runs interleave there.         *)

Runs == {1, 2}

NoRun == 0

\* the calls of llama3LLM.generate a researchApp makes, in order:
\* extractKeywords, searchWithAIKnowledge (when the searches before it
\* returned nothing), analyzeResults
GenerateCalls == {"keywords", "knowledge", "analyze"}

\* the stages of generateApp after the research stage
LaterStages == <<"plan", "code", "optimize", "deploy">>

stageLog(stage) ==
    CASE stage = "research" -> "Research completed"
      [] stage = "plan" -> "App structure planned"
      [] stage = "code" -> "Code generated"
      [] stage = "optimize" -> "Code optimized"
      [] stage = "deploy" -> "Deployment failed"

\* where a run goes after a generate call of the research stage: the calls
\* of extractKeywords and analyzeResults are outside any try block, so their
\* exception leaves researchApp and ends the run in the catch clause of
\* generateApp; searchWithAIKnowledge catches its own
researchAfter(call, threw, needKnowledge) ==
    CASE call = "keywords" ->
           IF threw THEN "done" ELSE IF needKnowledge THEN "knowledge" ELSE "analyze"
      [] call = "knowledge" -> "analyze"
      [] call = "analyze" -> IF threw THEN "done" ELSE "plan"

\* an access to the pipeline field by run r, when another run wrote its value
foreignAccess(r, kind, field) ==
    IF field.writer \notin {NoRun, r}
    THEN {[run |-> r, access |-> kind, writer |-> field.writer]}
    ELSE {}

RunsIdle ==
    /\ gpc = [r \in Runs |-> "idle"]
    /\ gsub = [r \in Runs |-> "none"]
    /\ glogs = [r \in Runs |-> <<>>]
    /\ pipeline = [loaded |-> FALSE, writer |-> NoRun]
    /\ shared = {}

\* generateApp(request) is called: the result object of the run is made and
\* researchApp reaches its first generate
RunGenerateApp(r) ==
    /\ gpc[r] = "idle"
    /\ gpc' = [gpc EXCEPT ![r] = "keywords"]
    /\ gsub' = [gsub EXCEPT ![r] = "enter"]
    /\ UNCHANGED <<glogs, pipeline, shared>>

\* LLaMA3LLM.generate: if (!this.pipeline) await this.initialize()
GenerateEnter(r) ==
    /\ gpc[r] \in GenerateCalls /\ gsub[r] = "enter"
    /\ shared' = shared \cup foreignAccess(r, "read", pipeline)
    /\ gsub' = [gsub EXCEPT ![r] = IF pipeline.loaded THEN "invoke" ELSE "loading"]
    /\ UNCHANGED <<gpc, glogs, pipeline>>

\* a run has left its generate call, with an exception or with a reply
GenerateLeave(r, threw) ==
    \E needKnowledge \in BOOLEAN :
      LET next == researchAfter(gpc[r], threw, needKnowledge)
      IN /\ gpc' = [gpc EXCEPT ![r] = next]
         /\ gsub' = [gsub EXCEPT ![r] = IF next \in GenerateCalls THEN "enter" ELSE "none"]
         /\ glogs' = [glogs EXCEPT ![r] =
                        IF next = "plan" THEN Append(@, stageLog("research"))
                        ELSE IF next = "done" THEN Append(@, "Error")
                        ELSE @]

\* LLaMA3LLM.initialize: the load ends and this.pipeline is assigned, or the
\* load is rejected
Initialize(r) ==
    /\ gpc[r] \in GenerateCalls /\ gsub[r] = "loading"
    /\ \E ok \in BOOLEAN :
         IF ok
         THEN /\ shared' = shared \cup foreignAccess(r, "write", pipeline)
              /\ pipeline' = [loaded |-> TRUE, writer |-> r]
              /\ gsub' = [gsub EXCEPT ![r] = "invoke"]
              /\ UNCHANGED <<gpc, glogs>>
         ELSE /\ GenerateLeave(r, TRUE)
              /\ UNCHANGED <<pipeline, shared>>

\* LLaMA3LLM.generate: await this.pipeline(fullPrompt, ...)
GenerateInvoke(r) ==
    /\ gpc[r] \in GenerateCalls /\ gsub[r] = "invoke"
    /\ shared' = shared \cup foreignAccess(r, "read", pipeline)
    /\ \E ok \in BOOLEAN : GenerateLeave(r, ~ok)
    /\ UNCHANGED pipeline

\* a later stage of generateApp: its agent holds no field that is assigned
\* after construction; the line of the stage is pushed to the run's logs
RunStage(r) ==
    /\ \E i \in 1..Len(LaterStages) :
         /\ gpc[r] = LaterStages[i]
         /\ gpc' = [gpc EXCEPT ![r] = IF i = Len(LaterStages) THEN "done"
                                       ELSE LaterStages[i + 1]]
         /\ glogs' = [glogs EXCEPT ![r] = Append(@, stageLog(LaterStages[i]))]
    /\ UNCHANGED <<gsub, pipeline, shared>>

RunsNext ==
    \/ \E r \in Runs : RunGenerateApp(r)
    \/ \E r \in Runs : GenerateEnter(r)
    \/ \E r \in Runs : Initialize(r)
    \/ \E r \in Runs : GenerateInvoke(r)
    \/ \E r \in Runs : RunStage(r)

-----------------------------------------------------------------------------
(* ResearchAgent: the two persisted files. research-cache.json is read by  *)
(* searchWithCachedResults, knowledge-base.json is read and rewritten by   *)
(* updateKnowledgeBase. Neither function awaits anything: the file calls   *)
(* are the synchronous ones, so a call that has started runs to its end    *)
(* before another call of the process moves. An entry of the knowledge     *)
(* base is the number of the insights list it was made from.               *)

KnowledgeCap == 100

MaxUpdates == 3

\* the calls of updateKnowledgeBase that may be in progress together
Updates == {"first", "second"}

NoUpdate == "none"

\* a file that is there and parses, but not to the kind of value the
\* function expects: null in research-cache.json, null or an object in
\* knowledge-base.json
BrokenStatuses == {"missing", "corrupt", "null"}

\* research-cache.json with a number in it: Object.entries gives no pair
ScalarCache == [status |-> "scalar", entries |-> <<>>]

\* one-letter tokens t1 .. t10
token(i) == <<SubSeq("abcdefghij", i, i)>>

\* seven keywords, and a cache whose first query shares seven of its ten
\* tokens with them (similarity 7/10), whose second shares three of seven
\* and whose third seven of eight
SevenKeywords == [i \in 1..7 |-> token(i)]

ThresholdCache ==
    [status |-> "ok",
     entries |-> << CacheEntry([i \in 1..10 |-> token(i)], CachedB),
                    CacheEntry([i \in 1..3 |-> token(i)], CachedB),
                    CacheEntry([i \in 1..8 |-> token(i)], CachedA) >>]

CacheContents ==
    CacheFiles \cup {[status |-> "null", entries |-> <<>>], ScalarCache, ThresholdCache}

LookupKeywords == {<<W_todo, W_list>>, <<W_chat>>, <<>>, SevenKeywords}

\* knowledge-base.json holding the entries 1..k
knowledgeFile(k) == [status |-> "ok", entries |-> [i \in 1..k |-> i]]

brokenFile(status) == [status |-> status, entries |-> <<>>]

\* the exception the cache lookup meets before its loop, if any: JSON.parse
\* on a corrupt file, Object.entries on null
lookupThrows(file) == file.status \in {"corrupt", "null"}

\* where searchWithCachedResults goes after reading the file, the exception
\* leaving the function
lookupNext_uncaught(threw) == IF threw THEN "threw" ELSE "loop"

\* where searchWithCachedResults goes after reading the file: the whole body
\* is one try block whose catch falls through to `return []`
lookupNext(threw) == IF threw THEN "empty" ELSE "loop"

\* updateKnowledgeBase, loading: knowledgeBase starts as [], a file that is
\* there replaces it with what JSON.parse returns, and the inner catch keeps
\* [] when the file does not parse
loadKnowledgeBase(file) ==
    CASE file.status = "missing" -> [array |-> TRUE, entries |-> <<>>]
      [] file.status = "corrupt" -> [array |-> TRUE, entries |-> <<>>]
      [] file.status = "null" -> [array |-> FALSE, entries |-> <<>>]
      [] file.status = "ok" -> [array |-> TRUE, entries |-> file.entries]

\* slice(-100) with the first hundred kept instead of the last
keepLast_first(kb) ==
    IF Len(kb) > KnowledgeCap THEN SubSeq(kb, 1, KnowledgeCap) ELSE kb

\* if (knowledgeBase.length > 100) knowledgeBase = knowledgeBase.slice(-100)
keepLast(kb) ==
    IF Len(kb) > KnowledgeCap THEN SubSeq(kb, Len(kb) - KnowledgeCap + 1, Len(kb)) ELSE kb

\* updateKnowledgeBase with a suspension point after every statement
suspendsAfter_each(step) == TRUE

\* whether the call gives up the thread after a step: the body holds no
\* await, so only when it returns
suspendsAfter(step) == step = "return"

\* where updateKnowledgeBase ends: the outer catch logs the error, and the
\* function returns either way
updateNext(threw) == IF threw THEN "failed" ELSE "done"

FilesIdle ==
    /\ lpc = "idle"
    /\ lkeywords = <<>>
    /\ lout = Null
    /\ kpc = [u \in Updates |-> "idle"]
    /\ klocal = [u \in Updates |-> Null]
    /\ kinsights = [u \in Updates |-> 0]
    /\ kthread = NoUpdate
    /\ kissued = 0
    /\ kappended = <<>>
    /\ kbFile = brokenFile("missing")

\* nothing of the process is in the middle of a synchronous stretch
ThreadFree == kthread = NoUpdate /\ lpc \in {"idle", "done", "threw"}

\* searchWithCachedResults(keywords) is called
LookupCall ==
    /\ ThreadFree
    /\ \E kws \in LookupKeywords : lkeywords' = kws
    /\ lout' = Null
    /\ lpc' = "read"
    /\ UNCHANGED <<kpc, klocal, kinsights, kthread, kissued, kappended, kbFile>>

\* existsSync, readFileSync, JSON.parse, Object.entries
LookupRead ==
    /\ lpc = "read"
    /\ lpc' = IF cacheFile.status = "missing" THEN "empty"
              ELSE lookupNext(lookupThrows(cacheFile))
    /\ UNCHANGED <<lkeywords, lout, kpc, klocal, kinsights, kthread, kissued, kappended, kbFile>>

\* the loop over the cached queries, returning at the first similar one
LookupLoop ==
    /\ lpc = "loop"
    /\ LET found == searchWithCachedResults(lkeywords, cacheFile)
       IN IF found = <<>> THEN lpc' = "empty" /\ UNCHANGED lout
          ELSE lpc' = "done" /\ lout' = Some(found)
    /\ UNCHANGED <<lkeywords, kpc, klocal, kinsights, kthread, kissued, kappended, kbFile>>

\* return []
LookupEmpty ==
    /\ lpc = "empty"
    /\ lout' = Some(<<>>)
    /\ lpc' = "done"
    /\ UNCHANGED <<lkeywords, kpc, klocal, kinsights, kthread, kissued, kappended, kbFile>>

\* updateKnowledgeBase(insights) is called
UpdateKnowledgeBase(u) ==
    /\ ThreadFree
    /\ kpc[u] \in {"idle", "done", "failed"}
    /\ kissued < MaxUpdates
    /\ kissued' = kissued + 1
    /\ kinsights' = [kinsights EXCEPT ![u] = KnowledgeCap + kissued + 1]
    /\ kpc' = [kpc EXCEPT ![u] = "load"]
    /\ klocal' = [klocal EXCEPT ![u] = Null]
    /\ kthread' = u
    /\ UNCHANGED <<lpc, lkeywords, lout, kappended, kbFile>>

\* the call u may take its next step: it holds the thread, or it was
\* suspended and the thread is free
mayStep(u) == kthread = u \/ (kthread = NoUpdate /\ lpc \in {"idle", "done", "threw"})

\* the existing knowledge base is loaded
UpdateLoad(u) ==
    /\ mayStep(u) /\ kpc[u] = "load"
    /\ klocal' = [klocal EXCEPT ![u] = Some(loadKnowledgeBase(kbFile))]
    /\ kpc' = [kpc EXCEPT ![u] = "save"]
    /\ kthread' = IF suspendsAfter("load") THEN NoUpdate ELSE u
    /\ UNCHANGED <<lpc, lkeywords, lout, kinsights, kissued, kappended, kbFile>>

\* the entry is pushed, the list cut to its last hundred and written; a
\* push on something that is no array and a failed write end in the catch
\* clause, which logs and returns
UpdateSave(u) ==
    /\ mayStep(u) /\ kpc[u] = "save"
    /\ \E written \in BOOLEAN :
         IF klocal[u][1].array /\ written
         THEN /\ kbFile' = [status |-> "ok",
                            entries |-> keepLast(Append(klocal[u][1].entries, kinsights[u]))]
              /\ kappended' = Append(IF kbFile.status = "ok" THEN kappended ELSE <<>>,
                                     kinsights[u])
              /\ kpc' = [kpc EXCEPT ![u] = updateNext(FALSE)]
         ELSE /\ kpc' = [kpc EXCEPT ![u] = updateNext(TRUE)]
              /\ UNCHANGED <<kbFile, kappended>>
    /\ kthread' = IF suspendsAfter("return") THEN NoUpdate ELSE u
    /\ UNCHANGED <<lpc, lkeywords, lout, klocal, kinsights, kissued>>

LookupNext ==
    \/ LookupCall
    \/ LookupRead
    \/ LookupLoop
    \/ LookupEmpty

KnowledgeNext ==
    \/ \E u \in Updates : UpdateKnowledgeBase(u)
    \/ \E u \in Updates : UpdateLoad(u)
    \/ \E u \in Updates : UpdateSave(u)

FilesNext ==
    \/ LookupCall
    \/ LookupRead
    \/ LookupLoop
    \/ LookupEmpty
    \/ \E u \in Updates : UpdateKnowledgeBase(u)
    \/ \E u \in Updates : UpdateLoad(u)
    \/ \E u \in Updates : UpdateSave(u)

\* knowledge-base.json before the calls: missing, unreadable, holding null,
\* or holding k entries
SmallKnowledgeFiles == {brokenFile(s) : s \in BrokenStatuses} \cup {knowledgeFile(1)}

KnowledgeFiles ==
    SmallKnowledgeFiles
    \cup {knowledgeFile(k) : k \in {0, KnowledgeCap - 1, KnowledgeCap}}

-----------------------------------------------------------------------------
(* The four-query fan-outs: ResearchAgent.getSimilarApps and               *)
(* WebResearch.researchApp. A query is "waiting" until its searchWeb call  *)
(* is made, "started" while the call is awaited and "empty" or "results"   *)
(* once it has finished.                                                   *)

NumQueries == 4

Queries == 1..NumQueries

finished(q) == q \in {"empty", "results"}

\* whether query i may be started: getSimilarApps awaits each searchWeb
\* inside its for loop, so the one before must have finished;
\* WebResearch.researchApp maps all four queries to their promises before
\* it awaits Promise.all
mayStart(op, i, queries) ==
    IF op = "similar" THEN \A j \in 1..(i - 1) : finished(queries[j]) ELSE TRUE

FanOutIdle ==
    /\ fpc = "idle"
    /\ fop = "none"
    /\ fquery = [i \in Queries |-> "waiting"]
    /\ franked = 0

\* getSimilarApps(appDescription) is called: the first query is started
GetSimilarApps ==
    /\ fpc \in {"idle", "done"}
    /\ fop' = "similar"
    /\ fquery' = [i \in Queries |-> IF i = 1 THEN "started" ELSE "waiting"]
    /\ franked' = 0
    /\ fpc' = "queries"

\* WebResearch.researchApp(prompt) is called: searchQueries.map starts the
\* four searches
WebResearchApp ==
    /\ fpc \in {"idle", "done"}
    /\ fop' = "research"
    /\ fquery' = [i \in Queries |-> "started"]
    /\ franked' = 0
    /\ fpc' = "queries"

\* a search that was started finishes
QueryFinish ==
    /\ fpc = "queries"
    /\ \E i \in Queries :
         /\ fquery[i] = "started"
         /\ \E outcome \in {"empty", "results"} : fquery' = [fquery EXCEPT ![i] = outcome]
    /\ UNCHANGED <<fpc, fop, franked>>

\* the next iteration of the for loop of getSimilarApps
QueryStart ==
    /\ fpc = "queries"
    /\ \E i \in Queries :
         /\ fquery[i] = "waiting"
         /\ \A j \in 1..(i - 1) : fquery[j] # "waiting"
         /\ mayStart(fop, i, fquery)
         /\ fquery' = [fquery EXCEPT ![i] = "started"]
    /\ UNCHANGED <<fpc, fop, franked>>

\* the results of the four searches are there: they are ranked
\* (getSimilarApps) and returned
FanOutJoin ==
    /\ fpc = "queries"
    /\ \A i \in Queries : finished(fquery[i])
    /\ franked' = Cardinality({i \in Queries : fquery[i] = "results"})
    /\ fpc' = "done"
    /\ UNCHANGED <<fop, fquery>>

FanOutNext ==
    \/ GetSimilarApps
    \/ WebResearchApp
    \/ QueryFinish
    \/ QueryStart
    \/ FanOutJoin

-----------------------------------------------------------------------------
(* Specifications *)

\* the orchestrator, as constructed by `new VoxlorOrchestrator()`
Init == OrchestratorIdle /\ ResearchIdle /\ cacheFile = [status |-> "missing", entries |-> <<>>]
        /\ PlannerIdle /\ CodeIdle /\ OptimizerIdle /\ PassIdle /\ DeployIdle /\ RunsIdle /\ FilesIdle /\ FanOutIdle
Next == OrchestratorNext /\ UNCHANGED <<resVars, planVars, codeVars, optVars, passVars, deployVars, runVars, fileVars, fanVars>>
Spec == Init /\ [][Next]_vars

\* the research agent on its own, for every content of the cache file
InitResearch == OrchestratorIdle /\ ResearchIdle /\ cacheFile \in CacheFiles /\ PlannerIdle
                /\ CodeIdle /\ OptimizerIdle /\ PassIdle /\ DeployIdle /\ RunsIdle /\ FilesIdle /\ FanOutIdle
NextResearch == ResearchNext /\ UNCHANGED <<orchVars, planVars, codeVars, optVars, passVars, deployVars, runVars, fileVars, fanVars>>
SpecResearch == InitResearch /\ [][NextResearch]_vars

\* the planner agent on its own
InitPlanner == OrchestratorIdle /\ ResearchIdle
               /\ cacheFile = [status |-> "missing", entries |-> <<>>] /\ PlannerIdle
               /\ CodeIdle /\ OptimizerIdle /\ PassIdle /\ DeployIdle /\ RunsIdle /\ FilesIdle /\ FanOutIdle
NextPlanner == PlannerNext /\ UNCHANGED <<orchVars, resVars, codeVars, optVars, passVars, deployVars, runVars, fileVars, fanVars>>
SpecPlanner == InitPlanner /\ [][NextPlanner]_vars

\* the code agent on its own
InitCode == OrchestratorIdle /\ ResearchIdle
            /\ cacheFile = [status |-> "missing", entries |-> <<>>] /\ PlannerIdle
            /\ CodeIdle /\ OptimizerIdle /\ PassIdle /\ DeployIdle /\ RunsIdle /\ FilesIdle /\ FanOutIdle
NextCode == CodeNext /\ UNCHANGED <<orchVars, resVars, planVars, optVars, passVars, deployVars, runVars, fileVars, fanVars>>
SpecCode == InitCode /\ [][NextCode]_vars

\* the optimizer agent on its own
InitOptimizer == InitCode
NextOptimizer == OptimizerNext /\ UNCHANGED <<orchVars, resVars, planVars, codeVars, passVars, deployVars, runVars, fileVars, fanVars>>
SpecOptimizer == InitOptimizer /\ [][NextOptimizer]_vars

\* the rewrite passes of the optimizer on their own
InitPass == InitCode
NextPass == PassNext /\ UNCHANGED <<orchVars, resVars, planVars, codeVars, optVars, deployVars, runVars, fileVars, fanVars>>
SpecPass == InitPass /\ [][NextPass]_vars

OthersIdle == OrchestratorIdle /\ ResearchIdle
              /\ cacheFile = [status |-> "missing", entries |-> <<>>] /\ PlannerIdle
              /\ CodeIdle /\ OptimizerIdle /\ PassIdle /\ RunsIdle /\ FilesIdle /\ FanOutIdle

\* the deploy agent on its own, for every set of credentials, the providers
\* holding nothing: deployments and rollbacks
InitDeploy == OthersIdle /\ AgentIdle /\ dcreds \in Credentials
              /\ remote = [p \in Providers |-> <<>>]
NextDeploy == DeployNext
              /\ UNCHANGED <<orchVars, resVars, planVars, codeVars, optVars, passVars, runVars, fileVars, fanVars>>
SpecDeploy == InitDeploy /\ [][NextDeploy]_vars

\* one provider holds one deployment, made earlier and being built
BuildingRemotes ==
    { [p \in Providers |-> IF p = q THEN <<[id |-> "d1", state |-> "building"]>> ELSE <<>>] :
        q \in Providers }

\* the deploy agent on its own while a provider builds a deployment: status
\* checks and rollbacks
InitStatus == OthersIdle /\ AgentIdle /\ dcreds \in Credentials /\ remote \in BuildingRemotes
NextStatus == StatusNext
              /\ UNCHANGED <<orchVars, resVars, planVars, codeVars, optVars, passVars, runVars, fileVars, fanVars>>
SpecStatus == InitStatus /\ [][NextStatus]_vars

\* two runs of generateApp on the orchestrator `new VoxlorOrchestrator()` made
InitRuns == InitCode
NextRuns == RunsNext
            /\ UNCHANGED <<orchVars, resVars, planVars, codeVars, optVars, passVars, deployVars, fileVars, fanVars>>
SpecRuns == InitRuns /\ [][NextRuns]_vars

\* everything but the research files as constructed
RestIdle == OrchestratorIdle /\ ResearchIdle /\ PlannerIdle /\ CodeIdle /\ OptimizerIdle
            /\ PassIdle /\ DeployIdle /\ RunsIdle /\ FanOutIdle

\* no call of the two file functions made yet
CallsIdle ==
    /\ lpc = "idle" /\ lkeywords = <<>> /\ lout = Null
    /\ kpc = [u \in Updates |-> "idle"] /\ klocal = [u \in Updates |-> Null]
    /\ kinsights = [u \in Updates |-> 0]
    /\ kthread = NoUpdate /\ kissued = 0

\* cache lookups and knowledge-base updates, for every content of the files
InitFiles == RestIdle /\ CallsIdle /\ cacheFile \in CacheContents
             /\ kbFile \in SmallKnowledgeFiles /\ kappended = kbFile.entries
NextFiles == FilesNext
             /\ UNCHANGED <<orchVars, resVars, planVars, codeVars, optVars, passVars,
                            deployVars, runVars, fanVars>>
SpecFiles == InitFiles /\ [][NextFiles]_vars

\* knowledge-base updates on their own, the file empty, short, or at its cap
InitKnowledge == RestIdle /\ CallsIdle /\ cacheFile = [status |-> "missing", entries |-> <<>>]
                 /\ kbFile \in KnowledgeFiles /\ kappended = kbFile.entries
NextKnowledge == KnowledgeNext
                 /\ UNCHANGED <<orchVars, resVars, planVars, codeVars, optVars, passVars,
                                deployVars, runVars, fanVars>>
SpecKnowledge == InitKnowledge /\ [][NextKnowledge]_vars

\* the two fan-outs on their own
InitFanOut == InitCode
NextFanOut == FanOutNext
              /\ UNCHANGED <<orchVars, resVars, planVars, codeVars, optVars, passVars,
                             deployVars, runVars, fileVars>>
SpecFanOut == InitFanOut /\ [][NextFanOut]_vars

-----------------------------------------------------------------------------
(* Properties *)

\* C1: the stage calls of a run are a prefix of Research, Planning, Code
\* Generation, Optimization, Deployment: in that order, each at most once.
C1_StageOrder ==
    /\ Len(calls) <= Len(StageOrder)
    /\ \A i \in DOMAIN calls : calls[i] = StageOrder[i]

C1_Witness == pc = "done" /\ calls = StageOrder

AllGenerationFailed ==
    genLog # <<>> /\ \A i \in DOMAIN genLog : genLog[i] = "fail"

\* C2: a run in which every text-generation call failed still ends with
\* success = true, a plan of complexity 'simple' with at least one page, a
\* bundle with at least one frontend component and a successful optimization.
C2_AllFailedRunSucceeds ==
    (pc = "done" /\ AllGenerationFailed) =>
        /\ result.success
        /\ plan # Null
        /\ plan[1].complexity = "simple"
        /\ plan[1].structure.pages # <<>>
        /\ result.code # Null
        /\ DOMAIN result.code[1].frontend.components # {}
        /\ result.optimization # Null
        /\ result.optimization[1].success

\* C3: a failed Deployment stage leaves the run successful: 'Deployment
\* failed' is appended to errors, no deployment URL is set, and the research,
\* code and optimization artifacts are the ones held before the stage.
C3_DeployFailureNotFatal ==
    [][ (pc = "deploy" /\ pc' = "done" /\ ~deployment'[1].success) =>
            /\ result'.success
            /\ result'.errors = Append(result.errors, "Deployment failed")
            /\ result'.deploymentUrl = Null
            /\ result'.research = result.research
            /\ result'.code = result.code
            /\ result'.optimization = result.optimization ]_vars

C3_Witness ==
    /\ pc = "done"
    /\ deployment # Null
    /\ ~deployment[1].success
    /\ result.success
    /\ result.errors = <<"Deployment failed">>
    /\ result.research # Null /\ result.code # Null /\ result.optimization # Null

\* C4: researchApp never throws and returns a summary holding all six fields.
C4_ResearchNeverThrows ==
    /\ rpc # "threw"
    /\ rpc = "done" => (summary # Null /\ DOMAIN summary[1] = SummaryFields)

lastTried == tried[Len(tried)]

sameResults(a, b) == Len(a) = Len(b) /\ Range(a) = Range(b)

\* C5: the strategies are invoked in the order primary, engines 1 to 3,
\* cache, knowledge; each only after every earlier one yielded nothing; and
\* searchWeb returns the results of the first strategy that yielded any.
C5_ChainOrder ==
    /\ Len(tried) <= Len(StrategyOrder)
    /\ \A i \in DOMAIN tried : tried[i].strategy = StrategyOrder[i]
    /\ \A i \in DOMAIN tried : i < Len(tried) => tried[i].yield = <<>>
    /\ returned # Null =>
         /\ tried # <<>>
         /\ sameResults(returned[1], lastTried.yield)

C5_Witness ==
    /\ returned # Null
    /\ Len(tried) = 5
    /\ lastTried.strategy = "cache"
    /\ lastTried.yield # <<>>
    /\ tried[1].failed /\ ~tried[2].failed

NoStrategyYielded == \A i \in DOMAIN tried : tried[i].yield = <<>>

ChainRunning == rpc \in {"engine", "cache", "knowledge"}

\* C6: when no strategy yields a result, searchWeb returns an empty sequence
\* without throwing, having tried all six strategies; a strategy that failed
\* is followed by the next one.
C6_AllFailEmpty ==
    /\ rthrew # "searchWeb"
    /\ (returned # Null /\ NoStrategyYielded) =>
         (returned = Some(<<>>) /\ Len(tried) = Len(StrategyOrder))
    /\ (tried # <<>> /\ lastTried.failed /\ Len(tried) < Len(StrategyOrder)) =>
         ChainRunning

C6_Witness ==
    /\ returned = Some(<<>>)
    /\ Len(tried) = Len(StrategyOrder)
    /\ \A i \in DOMAIN tried : tried[i].failed

C8_RelevanceBounded ==
    returned # Null =>
        \A i \in DOMAIN returned[1] : returned[1][i].relevance \in 0..RelevanceCap

\* C9: planApp calls in which text generation failed never throw, return one
\* and the same plan for a given prompt, and make no external call after the
\* failure.
C9_FallbackDeterministic ==
    /\ ppc # "threw"
    /\ pafter = 0
    /\ \A p \in Prompts : Cardinality(seen[p].plans) <= 1
    /\ (pop = "plan" /\ ppc = "done" /\ pfailed) =>
         (pout # Null /\ seen[preq.prompt].plans = {pout[1]})

C9_Witness ==
    /\ pop = "plan" /\ ppc = "done" /\ pfailed
    /\ panalysis # Null
    /\ seen[preq.prompt].n >= 2

RefinementFailed ==
    pfailed \/ (preply # Null /\ preply[1].kind \in {"text", "badjson"})

\* C10: a refinePlan call whose text generation failed, or whose reply held
\* no parseable payload, returns its input plan.
C10_RefineKeepsPlan ==
    (pop = "refine" /\ ppc = "done" /\ RefinementFailed) => pout = pin

OptimizationFailed ==
    creply # Null /\ creply[1].kind \in {"fail", "text", "badjson"}

\* C11: an optimizeCode(code, feedback) call whose text generation failed,
\* or whose reply could not be parsed, returns its input bundle.
C11_FeedbackFailureKeepsBundle ==
    (cop = "optimize" /\ cpc \in {"done", "threw"} /\ OptimizationFailed) =>
        (cpc = "done" /\ cout = cin)

\* C12: generateCode calls in which an external call failed never throw,
\* return one and the same bundle for a given request, whatever the plan,
\* with at least one frontend component, and make no external call after the
\* failure.
C12_FallbackBundle ==
    /\ cop = "generate" => cpc # "threw"
    /\ cafter = 0
    /\ \A r \in CodeRequests : Cardinality(cseen[r].bundles) <= 1
    /\ (cop = "generate" /\ cpc = "done" /\ cfailed) =>
         /\ cout # Null
         /\ cseen[creq].bundles = {cout[1]}
         /\ cout[1] = templateBundle(creq)
         /\ DOMAIN cout[1].frontend.components # {}

C12_Witness ==
    /\ cop = "generate" /\ cpc = "done" /\ cfailed
    /\ creply # Null
    /\ cseen[creq].n >= 2

\* C13: the three scores of the OptimizationResult are integers in [0, 100]
\* at every point of every optimizeCode call, whatever the number of files
\* and whether or not the call fails.
C13_ScoresBounded ==
    oresult # Null =>
        /\ oresult[1].performanceScore \in 0..100
        /\ oresult[1].securityScore \in 0..100
        /\ oresult[1].maintainabilityScore \in 0..100

C13_Witness ==
    /\ opc = "done"
    /\ oresult[1].success
    /\ Cardinality(DOMAIN oarg[1].frontend.components) >= 6
    /\ oresult[1].performanceScore = 0
    /\ oresult[1].securityScore = 0
    /\ oresult[1].maintainabilityScore = 0

\* C14: applying the performance pass to its own output changes no frontend
\* component text and no backend route text.
C14_PerformanceIdempotent ==
    (wkind = "performance" /\ wpasses >= 2) =>
        /\ wbundle[1].frontend.components = wprev[1].frontend.components
        /\ wbundle[1].backend.routes = wprev[1].backend.routes

\* C15: when optimizeCode returns, the bundle it was given holds the texts it
\* held when the call was made.
C15_ArgumentNotMutated ==
    opc = "done" => oarg = obefore

hasFailureIssue ==
    \E i \in DOMAIN oresult[1].issues : startsWith(oresult[1].issues[i], "Optimization failed")

\* C16: optimizeCode never throws; a bundle with a section missing yields
\* success = false and an issue describing the failure, every well-formed
\* bundle yields success = true.
C16_OptimizeNeverThrows ==
    /\ opc # "threw"
    /\ opc = "done" =>
         /\ oresult[1].success <=> wellFormed(obefore[1])
         /\ ~wellFormed(obefore[1]) => hasFailureIssue

C16_Witness ==
    /\ opc = "done"
    /\ ~wellFormed(obefore[1])
    /\ ~oresult[1].success
    /\ hasFailureIssue

\* C17: for each of the four providers, a rollback addressed to a provider
\* that holds fewer than two deployments fails: rollbackDeployment returns
\* false.
C17_RollbackNeedsPrevious ==
    (dop = "rollback" /\ dpc = "done" /\ dplatform \in Providers
       /\ Len(remote[dplatform]) < 2)
    => dout = FALSE

\* C18: ready and error are terminal: once checkDeploymentStatus has
\* reported ready or error for a deployment id and provider, no later
\* checkDeploymentStatus of the same id and provider reports building (a
\* rollback returns a boolean and reports no status).
C18_TerminalStatusStays ==
    (dop = "status" /\ dpc = "done" /\ dout.status = "building")
    => dwatch # Some([id |-> did, platform |-> dplatform])

\* C19: deployApp never throws and reports every failure in its result: a
\* failed result has no url and carries the message of the failure in
\* errors, a successful one has a url and no errors; a missing credential
\* and an unsupported platform are found before any request is sent.
C19_DeployFailuresReported ==
    /\ dpc # "threw"
    /\ (dop = "deploy" /\ dnet # <<>>) => dplatform \in dcreds
    /\ (dop = "deploy" /\ dpc = "done") =>
         /\ dout.success <=> dout.url # Null
         /\ dout.success => dout.errors = <<>>
         /\ ~dout.success => Len(dout.errors) = 1 /\ Len(dout.errors[1]) > 0
         /\ ~wellFormed(dcode[1]) => dout.errors = <<TypeErrorMessage>> /\ dnet = <<>>
         /\ (wellFormed(dcode[1]) /\ dplatform \notin Providers)
              => dout.errors = <<unsupportedMessage(dplatform)>> /\ dnet = <<>>
         /\ (wellFormed(dcode[1]) /\ dplatform \in Providers \ dcreds)
              => dout.errors = <<credentialMessage(dplatform, TRUE)>> /\ dnet = <<>>

\* a deployment the provider refused, reported as a failed result
C19_Witness ==
    /\ dop = "deploy" /\ dpc = "done" /\ dplatform = "vercel"
    /\ dnet = <<"POST https://api.vercel.com/v13/deployments">>
    /\ dout = DeploymentResult(FALSE, Null, <<>>,
                <<"Vercel deployment failed: Request failed with status code 500">>)

\* C20: two generateApp runs on one orchestrator share no mutable state: no
\* run reads or writes a value that the other run wrote.
C20_RunsShareNothing == shared = {}

\* C21: a missing or corrupt research-cache.json or knowledge-base.json is
\* never fatal: searchWithCachedResults returns no results and does not
\* throw, and updateKnowledgeBase returns without throwing, whatever the
\* two files hold.
C21_BrokenFilesNotFatal ==
    /\ lpc # "threw"
    /\ \A u \in Updates : kpc[u] \in {"idle", "load", "save", "done", "failed"}
    /\ (lpc = "done" /\ cacheFile.status # "ok") => lout = Some(<<>>)
    /\ \A u \in Updates :
         (kpc[u] = "failed" /\ kbFile.status \in {"missing", "corrupt", "null"})
         => kappended = <<>>

\* a lookup in a corrupt cache file that returned nothing, and an update of
\* a knowledge base holding null that returned
C21_Witness ==
    /\ lpc = "done" /\ cacheFile.status = "corrupt" /\ lout = Some(<<>>)
    /\ kbFile.status = "null" /\ kpc["first"] = "failed"

\* C22: the knowledge base on disk holds at most 100 entries, and they are
\* the entries appended last, in the order they were appended.
C22_LastHundredKept ==
    kbFile.status = "ok" =>
      /\ Len(kbFile.entries) <= KnowledgeCap
      /\ LET n == Len(kappended)
             kept == Min(n, KnowledgeCap)
         IN kbFile.entries = SubSeq(kappended, n - kept + 1, n)

\* an entry appended to a full knowledge base, and the oldest one gone
C22_Witness ==
    /\ kbFile.status = "ok"
    /\ Len(kappended) > KnowledgeCap
    /\ Len(kbFile.entries) = KnowledgeCap
    /\ kbFile.entries[1] = 2
    /\ kbFile.entries[KnowledgeCap] > KnowledgeCap

\* C30: a call of updateKnowledgeBase that has read the file writes it
\* before anything else of the process runs, so no entry is lost: after n
\* successful calls on a file of k entries the file holds min(100, k + n).
C30_NoLostUpdate ==
    /\ \A u \in Updates : kpc[u] = "save" => kthread = u
    /\ kbFile.status = "ok" => Len(kbFile.entries) = Min(KnowledgeCap, Len(kappended))

\* two calls made on a file of one entry, both written
C30_Witness ==
    /\ kpc = [u \in Updates |-> "done"]
    /\ Len(kappended) = 3
    /\ kbFile.entries = kappended

\* C23: the cache lookup returns the results of the first cached query
\* whose Jaccard similarity with the keyword query, over their
\* space-separated tokens, is strictly greater than 0.7, and nothing when
\* there is none; a similarity of exactly 0.7 is a miss.
C23_JaccardThreshold ==
    (lpc = "done" /\ cacheFile.status = "ok") =>
      LET asked == queryTokens(lkeywords)
          jaccardAbove(i) ==
            LET cached == cachedTokens(cacheFile.entries[i].query)
            IN 10 * Cardinality(asked \cap cached) > 7 * Cardinality(asked \cup cached)
          passing == {i \in DOMAIN cacheFile.entries : jaccardAbove(i)}
      IN IF passing = {} THEN lout = Some(<<>>)
         ELSE \E i \in passing :
                /\ \A j \in passing : i <= j
                /\ lout = Some(cacheFile.entries[i].results)

\* seven keywords looked up in a cache whose first query has similarity
\* 7/10 and whose third has 7/8: the results of the third are returned
C23_Witness ==
    /\ lpc = "done" /\ lkeywords = SevenKeywords /\ cacheFile = ThresholdCache
    /\ calculateQuerySimilarity(queryTokens(lkeywords),
                                cachedTokens(cacheFile.entries[1].query)) = <<7, 10>>
    /\ lout = Some(CachedA)

\* C24: optimizeSecurity and optimizeMaintainability are idempotent:
\* applied to their own output they change no text, so the validation
\* wrapper, the CORS import and the interface block are inserted once.
C24_SecurityMaintainabilityIdempotent ==
    (wkind \in {"security", "maintainability"} /\ wpasses >= 2) => wbundle = wprev

\* the security pass applied twice to a route that reads req.body: the
\* wrapper and the import are there, each once
C24_Witness ==
    /\ wkind = "security" /\ wpasses = 2
    /\ \E f \in DOMAIN wbundle[1].backend.routes :
         LET c == wbundle[1].backend.routes[f].s
         IN /\ Cardinality(positions(c, "validateInput(")) = 1
            /\ Cardinality(positions(c, "import cors from \"cors\";")) = 1
            /\ startsWith(c, "import cors from \"cors\";\n")

\* C25: lintFile reports a named import binding that is referenced nowhere
\* but in its own import statement: for a component whose first line
\* imports Card and whose text names Card only there, the lint issues hold
\* 'Unused import: Card' at line 1.
C25_UnusedImportReported ==
    opc = "test" =>
      \A f \in DOMAIN oarg[1].frontend.components :
        LET c == oarg[1].frontend.components[f].s
        IN (startsWith(c, "import { Card,") /\ Cardinality(positions(c, "Card")) = 1)
           => \E i \in DOMAIN oresult[1].issues :
                /\ startsWith(oresult[1].issues[i], f \o ":1:")
                /\ includes(oresult[1].issues[i], "Unused import: Card")

\* C26: the four searches of a fan-out are issued concurrently: none waits
\* for another to finish, so whenever one of them has finished all four
\* have been started; and the results are ranked and returned only after
\* all four have finished.
C26_QueriesConcurrent ==
    /\ (\E i \in Queries : finished(fquery[i])) => \A j \in Queries : fquery[j] # "waiting"
    /\ fpc = "done" => \A i \in Queries : finished(fquery[i])

\* C27: every plan returned by planApp or refinePlan has a complexity that
\* is one of simple, medium and complex, whatever the payload of the reply.
C27_ComplexityListed ==
    (ppc = "done" /\ pout # Null) => pout[1].complexity \in Complexities

\* the log lines of the four generation stages, in the order of the stages
CompletedLogs ==
    <<"Research completed", "App structure planned", "Code generated", "Code optimized">>

\* C28: generateApp always returns; a stage that throws ends the run: it is
\* the last stage called, the result has success = false, exactly one error
\* and one error log line after the lines of the completed stages, the
\* artifacts of the stages that did not complete are null and those of the
\* completed stages are kept.
C28_ThrowingStageEndsRun ==
    /\ pc \in {"idle", "done"} \cup Range(StageOrder)
    /\ (pc = "done" /\ ~result.success) =>
         LET n == Len(calls)
         IN /\ n \in 1..Len(StageOrder)
            /\ Len(result.errors) = 1
            /\ result.logs = SubSeq(CompletedLogs, 1, n - 1) \o <<"Error">>
            /\ (result.research = Null) <=> (n <= 1)
            /\ (plan = Null) <=> (n <= 2)
            /\ (result.code = Null) <=> (n <= 3)
            /\ (result.optimization = Null) <=> (n <= 4)
            /\ result.deploymentUrl = Null
            /\ deployment = Null

C28_Witness ==
    /\ pc = "done"
    /\ ~result.success
    /\ calls = <<"research">>
    /\ result.errors = <<LLMError>>
    /\ result.logs = <<"Error">>
    /\ result.research = Null /\ result.code = Null /\ result.optimization = Null

\* C29: a run whose four generation stages completed calls deployApp once,
\* for vercel, whatever the request and the outcome of the optimization; the
\* agent holds no token, so the deployment fails before a request is sent,
\* and the run ends with success = true, 'Deployment failed' among its
\* errors and no deployment URL.
C29_OneVercelDeploymentFails ==
    (pc = "done" /\ result.optimization # Null) =>
        /\ calls = StageOrder
        /\ deployment # Null
        /\ ~deployment[1].success
        /\ deployment[1].url = Null
        /\ deployment[1].errors \in { <<"Vercel token not provided">>,
                                      <<"Cannot read properties of undefined">> }
        /\ result.success
        /\ result.errors = <<"Deployment failed">>
        /\ result.deploymentUrl = Null

C29_Witness ==
    /\ pc = "done"
    /\ request.platform = "mobile"
    /\ calls = StageOrder
    /\ result.optimization # Null
    /\ deployment # Null
    /\ deployment[1].errors = <<"Vercel token not provided">>
    /\ result.success
    /\ "Deployment failed" \in Range(result.errors)

====
